---- MODULE Spec2Model ----
(***************************************************************************)
(* Hawkbot command parser: the shlex tokenizer as configured by Parser,    *)
(* the Grammar registry, the parameter types and the ParsedCommand binder. *)
(* Strings are TLA+ strings; a character is a string of length one.        *)
(***************************************************************************)
EXTENDS Integers, Sequences, FiniteSets, TLC

VARIABLES
  lexer,     \* Parser.lexer: the one shlex instance, reused by every parse
  command,   \* the ParsedCommand being built by the running parse_command
  frame,     \* locals of the running parse_command (and of parse_sequence)
  outcome,   \* what the last finished parse_command gave its caller
  embed,     \* what Hawkbot.help sent for the last message, if it was run
  vocab,     \* the family of command texts this run draws its inputs from
  guild,     \* the discord.Guild of the message: its members and text channels
  param,     \* a users or channels parameter of a command a handler works on
  reply,     \* what the last call of a handler on param or on pins gave
  pins,      \* the tables g<guild_id>_pins of the database
  tasks,     \* where the on_message coroutine of each message stands
  config,    \* the shared table config of the database
  prefixes,  \* Hawkbot.prefixes: the PrefixStore
  channel_memory,  \* Hawkbot.channel_memory: last_command of each channel
  rquote_memory    \* a SizedDict, as channel_memory[chan]['rquote']

vars ==
  <<lexer, command, frame, outcome, embed, vocab, guild, param, reply, pins,
    tasks, config, prefixes, channel_memory, rquote_memory>>

(***************************************************************************)
(* Bounds                                                                  *)
(***************************************************************************)
\* longest command text, counted in fragments of the vocabulary
MaxWords == 4
\* most raw names in a users or channels parameter that is resolved
MaxNames == 2
\* most members, and most text channels, of a guild
MaxEntities == 2
\* the greatest number a limit is checked for
MaxLimit == 12
\* most rows of one pins table
MaxRows == 4
\* the messages that arrive while the event loop is watched
MaxMessages == 2
\* None items kept at the end of a bracket sequence that met the end of input
MaxEofItems == 2

(***************************************************************************)
(* Characters                                                              *)
(***************************************************************************)
ascii_letters ==
  {"a", "b", "c", "d", "e", "f", "g", "h", "i", "j", "k", "l", "m", "n",
   "o", "p", "q", "r", "s", "t", "u", "v", "w", "x", "y", "z", "A", "B",
   "C", "D", "E", "F", "G", "H", "I", "J", "K", "L", "M", "N", "O", "P",
   "Q", "R", "S", "T", "U", "V", "W", "X", "Y", "Z"}

digits ==
  {"0", "1", "2", "3", "4", "5", "6", "7", "8", "9"}

\* U+0060 cannot be written inside a TLA+ string; U+00B4 stands for it
backtick == "´"

punctuation ==
  {"!", "\"", "#", "$", "%", "&", "'", "(", ")", "*", "+", ",", "-", ".",
   "/", ":", ";", "<", "=", ">", "?", "@", "[", "\\", "]", "^", "_", backtick,
   "{", "|", "}", "~"}

\* shlex.whitespace
whitespace ==
  {" ", "\t", "\r", "\n"}

\* Parser.__init__: lexer.quotes
quotes ==
  {"'", "\"", backtick}

lexical_parsing_wordchars ==
  ascii_letters \cup digits
    \cup (punctuation \ {"\"", "'", "(", ")", ",", ";", "[", "]", backtick, "{", "}"})

positional_parsing_wordchars ==
  (ascii_letters \cup digits \cup punctuation) \ {"\"", "'"}

\* the character set a wordchars profile stands for
Wordchars(profile) ==
  IF profile = "positional" THEN positional_parsing_wordchars
  ELSE lexical_parsing_wordchars

(***************************************************************************)
(* shlex (non-posix, no commenters, no punctuation_chars)                  *)
(***************************************************************************)
\* lexer.state is " ", "a", a quote character, or "None" (past end of file)
StateNone == "None"

\* shlex.__init__ as left by Parser.__init__
NewLexer ==
  [state |-> " ", token |-> "", pushback |-> <<>>,
   wordchars |-> "default", instream |-> ""]

\* the tail of read_token: result = self.token; self.token = ''
EmitToken(lx) ==
  [lexer |-> [lx EXCEPT !.token = ""], tok |-> lx.token, err |-> "",
   more |-> FALSE]

\* the number of characters at the start of s that all lie in chars
Span(s, chars) ==
  LET stops == {i \in 1..Len(s) : SubSeq(s, i, i) \notin chars}
  IN IF stops = {} THEN Len(s)
     ELSE (CHOOSE i \in stops : \A j \in stops : i <= j) - 1

\* the number of characters at the start of s before the first c
SpanUntil(s, c) ==
  LET stops == {i \in 1..Len(s) : SubSeq(s, i, i) = c}
  IN IF stops = {} THEN Len(s)
     ELSE (CHOOSE i \in stops : \A j \in stops : i <= j) - 1

\* read_token goes round its loop once more, with the lexer as lx
Continue(lx) ==
  [lexer |-> lx, tok |-> "", err |-> "", more |-> TRUE]

\* one turn of the loop of shlex.read_token, on one character (nextchar); a
\* run of characters that the loop would only append to the token, or only
\* skip, is taken in a single turn
read_token_turn(lx) ==
  LET nextchar == IF lx.instream = "" THEN "" ELSE Head(lx.instream)
      l1 == [lx EXCEPT !.instream = IF lx.instream = "" THEN "" ELSE Tail(lx.instream)]
      Take(n) == [lx EXCEPT !.token = lx.token \o SubSeq(lx.instream, 1, n),
                            !.instream = SubSeq(lx.instream, n + 1, Len(lx.instream))]
  IN
  IF l1.state = StateNone THEN
    EmitToken([l1 EXCEPT !.token = ""])
  ELSE IF l1.state = " " THEN
    IF nextchar = "" THEN
      EmitToken([l1 EXCEPT !.state = StateNone])
    ELSE IF nextchar \in whitespace THEN
      IF l1.token # "" THEN EmitToken(l1)
      ELSE Continue([lx EXCEPT !.instream =
             SubSeq(lx.instream, Span(lx.instream, whitespace) + 1, Len(lx.instream))])
    ELSE IF nextchar \in Wordchars(l1.wordchars) THEN
      Continue([l1 EXCEPT !.token = nextchar, !.state = "a"])
    ELSE IF nextchar \in quotes THEN
      Continue([l1 EXCEPT !.token = nextchar, !.state = nextchar])
    ELSE
      EmitToken([l1 EXCEPT !.token = nextchar])
  ELSE IF l1.state \in quotes THEN
    IF nextchar = "" THEN
      \* raise ValueError("No closing quotation"): token and state stay
      [lexer |-> l1, tok |-> "", err |-> "ValueError", more |-> FALSE]
    ELSE IF nextchar = l1.state THEN
      EmitToken([l1 EXCEPT !.token = l1.token \o nextchar, !.state = " "])
    ELSE
      Continue(Take(SpanUntil(lx.instream, lx.state)))
  ELSE
    \* state "a"
    IF nextchar = "" THEN
      EmitToken([l1 EXCEPT !.state = StateNone])
    ELSE IF nextchar \in whitespace THEN
      IF l1.token # "" THEN EmitToken([l1 EXCEPT !.state = " "])
      ELSE Continue([l1 EXCEPT !.state = " "])
    ELSE IF nextchar \in Wordchars(l1.wordchars) \/ nextchar \in quotes THEN
      Continue(Take(Span(lx.instream, Wordchars(lx.wordchars) \cup quotes)))
    ELSE
      LET l2 == [l1 EXCEPT !.pushback = <<nextchar>> \o l1.pushback,
                           !.state = " "]
      IN IF l2.token # "" THEN EmitToken(l2) ELSE Continue(l2)

\* shlex.read_token: the loop runs until a turn breaks out of it or raises
RECURSIVE read_token(_)
read_token(lx) ==
  LET r == read_token_turn(lx)
  IN IF r.more THEN read_token(r.lexer) ELSE r

get_token(lx) ==
  IF lx.pushback # <<>> THEN
    [lexer |-> [lx EXCEPT !.pushback = Tail(lx.pushback)],
     tok |-> Head(lx.pushback), err |-> "", more |-> FALSE]
  ELSE read_token(lx)

\* Parser.set_parse_mode for LEXICAL and POSITIONAL
set_parse_mode(lx, mode) ==
  [lx EXCEPT !.wordchars = mode]

(***************************************************************************)
(* Values                                                                  *)
(***************************************************************************)
\* Optional[...]: None, or a value
None == [has |-> FALSE, v |-> ""]
NoneInt == [has |-> FALSE, v |-> 0]
Some(x) == [has |-> TRUE, v |-> x]

\* What parse_token returns: a string, None (end of input), or a list.  A
\* list is kept flat: its items in order, a nested list written as an
\* "open" item, its items, and a "close" item (no string item of a list can
\* be a bare bracket, parse_token never returns one inside a sequence).
Str(s) == [k |-> "str", s |-> s, l |-> <<>>]
NoneTok == [k |-> "none", s |-> "", l |-> <<>>]
List(items) == [k |-> "list", s |-> "", l |-> items]
Item(kind, s) == [k |-> kind, s |-> s]

\* bool(x) of a value parse_token returned
Truthy(t) ==
  CASE t.k = "str" -> t.s # ""
    [] t.k = "list" -> t.l # <<>>
    [] OTHER -> FALSE

\* len(arg) of a list: its top-level items
RECURSIVE TopLen(_, _)
TopLen(items, depth) ==
  IF items = <<>> THEN 0
  ELSE LET h == Head(items) IN
    CASE h.k = "open" -> (IF depth = 0 THEN 1 ELSE 0) + TopLen(Tail(items), depth + 1)
      [] h.k = "close" -> TopLen(Tail(items), depth - 1)
      [] OTHER -> (IF depth = 0 THEN 1 ELSE 0) + TopLen(Tail(items), depth)

IsDigits(s) ==
  /\ s # ""
  /\ \A i \in 1..Len(s) : SubSeq(s, i, i) \in digits

DigitVal(c) ==
  CASE c = "0" -> 0 [] c = "1" -> 1 [] c = "2" -> 2 [] c = "3" -> 3
    [] c = "4" -> 4 [] c = "5" -> 5 [] c = "6" -> 6 [] c = "7" -> 7
    [] c = "8" -> 8 [] c = "9" -> 9

RECURSIVE DigitsToInt(_)
DigitsToInt(s) ==
  IF s = "" THEN 0
  ELSE 10 * DigitsToInt(SubSeq(s, 1, Len(s) - 1)) + DigitVal(SubSeq(s, Len(s), Len(s)))

\* int(x) of a list item: an optional sign and decimal digits give the
\* number; any other string raises ValueError, None or a list TypeError
\* (digit-group underscores and surrounding blanks are not in the inputs)
int(item) ==
  IF item.k # "str" THEN [ok |-> FALSE, exc |-> "TypeError", v |-> 0]
  ELSE LET s == item.s
           signed == s # "" /\ Head(s) \in {"+", "-"}
           body == IF signed THEN Tail(s) ELSE s
       IN IF IsDigits(body)
          THEN [ok |-> TRUE, exc |-> "",
                v |-> IF signed /\ Head(s) = "-" THEN 0 - DigitsToInt(body)
                      ELSE DigitsToInt(body)]
          ELSE [ok |-> FALSE, exc |-> "ValueError", v |-> 0]

\* the longest run of decimal digits at the start of s (regex \d+, greedy)
DigitPrefix(s) ==
  SubSeq(s, 1, Span(s, digits))

StartsWith(s, pre) ==
  Len(s) >= Len(pre) /\ SubSeq(s, 1, Len(pre)) = pre

Drop(s, n) == SubSeq(s, n + 1, Len(s))

(***************************************************************************)
(* Parameter types (parameter_types.py)                                    *)
(***************************************************************************)
\* result of a parse call: the updated instance, or the exception raised
Parsed(p) == [ok |-> TRUE, exc |-> "", p |-> p]
Raise(exc, p) == [ok |-> FALSE, exc |-> exc, p |-> p]

\* arg[0] if a list was given, else the argument itself
First(arg) ==
  IF arg.k = "list" THEN
    (IF Head(arg.l).k = "open" THEN Item("list", "") ELSE Head(arg.l))
  ELSE Item(arg.k, arg.s)

StringParam(kw) ==
  [type |-> "StringParam", value |-> None]

StringParam_parse(self, arg) ==
  Parsed([self EXCEPT !.value = IF arg.k = "str" THEN Some(arg.s) ELSE None])

ChoiceParam(kw) ==
  [type |-> "ChoiceParam", value |-> kw.default, choices |-> kw.choices,
   default |-> kw.default]

\* a faulty variant of ChoiceParam.parse: any string is stored, member of
\* the choices or not
ChoiceParam_parse_unchecked(self, arg) ==
  LET a == First(arg) IN
  IF a.k = "list" THEN Raise("TypeError", self)
  ELSE IF a.k = "str" THEN Parsed([self EXCEPT !.value = Some(a.s)])
       ELSE Parsed(self)

\* ChoiceParam.parse
ChoiceParam_parse(self, arg) ==
  LET a == First(arg) IN
  IF a.k = "list" THEN Raise("TypeError", self)
  ELSE IF a.k = "str" /\ a.s \in self.choices
       THEN Parsed([self EXCEPT !.value = Some(a.s)])
       ELSE Parsed(self)

DiscordMessageURLParam(kw) ==
  [type |-> "DiscordMessageURLParam", url |-> None, guild_id |-> NoneInt,
   channel_id |-> NoneInt, message_id |-> NoneInt]

URLPrefix == "https://discordapp.com/channels/"

\* the pattern ^https://discordapp\.com/channels/(\d+)/(\d+)/(\d+)$
URLMatch(s) ==
  IF ~StartsWith(s, URLPrefix) THEN [ok |-> FALSE, g |-> "", c |-> "", m |-> ""]
  ELSE LET r1 == Drop(s, Len(URLPrefix))
           g == DigitPrefix(r1)
           r2 == Drop(r1, Len(g))
           c == DigitPrefix(Drop(r2, 1))
           r3 == Drop(r2, 1 + Len(c))
           m == DigitPrefix(Drop(r3, 1))
       IN [ok |-> /\ g # "" /\ StartsWith(r2, "/")
                  /\ c # "" /\ StartsWith(r3, "/")
                  /\ m # "" /\ Drop(r3, 1 + Len(m)) = "",
           g |-> g, c |-> c, m |-> m]

DiscordMessageURLParam_parse(self, arg) ==
  IF arg.k # "str" THEN Raise("TypeError", self)
  ELSE LET match == URLMatch(arg.s) IN
    IF ~match.ok THEN Raise("ValueError", self)
    ELSE Parsed([self EXCEPT !.url = Some(arg.s),
                             !.guild_id = Some(DigitsToInt(match.g)),
                             !.channel_id = Some(DigitsToInt(match.c)),
                             !.message_id = Some(DigitsToInt(match.m))])

\* DiscordResolvableParam.__init__ of UsersParam and ChannelsParam
DiscordResolvableParam(type) ==
  [type |-> type, raw_names |-> <<>>, resolved |-> <<>>, names |-> <<>>,
   ids |-> <<>>]

DiscordResolvableParam_parse(self, arg) ==
  Parsed([self EXCEPT !.raw_names = IF arg.k = "list" THEN arg.l
                                    ELSE <<Item(arg.k, arg.s)>>])

ascii_uppercase == "ABCDEFGHIJKLMNOPQRSTUVWXYZ"
ascii_lowercase_letters == "abcdefghijklmnopqrstuvwxyz"

\* str.lower()
RECURSIVE lower(_)
lower(s) ==
  IF s = "" THEN ""
  ELSE LET at == {i \in 1..Len(ascii_uppercase) :
                    SubSeq(ascii_uppercase, i, i) = SubSeq(s, 1, 1)}
       IN (IF at = {} THEN SubSeq(s, 1, 1)
           ELSE SubSeq(ascii_lowercase_letters, CHOOSE i \in at : TRUE,
                       CHOOSE i \in at : TRUE))
            \o lower(SubSeq(s, 2, Len(s)))

\* the operator in of two strings: sub in s
In(sub, s) ==
  \E i \in 0..(Len(s) - Len(sub)) : SubSeq(s, i + 1, i + Len(sub)) = sub

\* the first entity, in order, among those at the places found; raises
\* UserFeedbackError if there is none
FirstOf(entities, found) ==
  IF found = {} THEN [ok |-> FALSE, exc |-> "UserFeedbackError", v |-> <<>>]
  ELSE [ok |-> TRUE, exc |-> "",
        v |-> <<entities[CHOOSE i \in found : \A j \in found : i <= j]>>]

\* UsersParam._find
UsersParam_find(g, name) ==
  FirstOf(g.members,
          {i \in 1..Len(g.members) :
             ~g.members[i].bot /\ In(name, lower(g.members[i].name))})

\* ChannelsParam._find
ChannelsParam_find(g, name) ==
  FirstOf(g.text_channels,
          {i \in 1..Len(g.text_channels) : In(name, g.text_channels[i].name)})

\* the loop of DiscordResolvableParam.resolve over self._raw_names: the
\* entities found, or the exception that ended it (name.lower() of an item
\* that is no string raises AttributeError)
RECURSIVE find_each(_, _, _)
find_each(type, g, raw_names) ==
  IF raw_names = <<>> THEN [ok |-> TRUE, exc |-> "", v |-> <<>>]
  ELSE IF Head(raw_names).k # "str"
       THEN [ok |-> FALSE, exc |-> "AttributeError", v |-> <<>>]
  ELSE LET find == IF type = "UsersParam"
                   THEN UsersParam_find(g, lower(Head(raw_names).s))
                   ELSE ChannelsParam_find(g, lower(Head(raw_names).s))
       IN IF ~find.ok THEN find
          ELSE LET rest == find_each(type, g, Tail(raw_names))
               IN IF rest.ok THEN [rest EXCEPT !.v = find.v \o rest.v] ELSE rest

\* DiscordResolvableParam.resolve(guild)
DiscordResolvableParam_resolve(self, g) ==
  LET found == find_each(self.type, g, self.raw_names)
  IN IF found.ok THEN Parsed([self EXCEPT !.resolved = found.v])
     ELSE Raise(found.exc, self)

\* the property ids: the instance as the read leaves it, and the value read
DiscordResolvableParam_ids(self) ==
  LET p == IF self.ids = <<>>
           THEN [self EXCEPT !.ids = [i \in 1..Len(self.resolved) |-> self.resolved[i].id]]
           ELSE self
  IN [p |-> p, v |-> p.ids]

\* the property names
DiscordResolvableParam_names(self) ==
  IF self.names # <<>> THEN [p |-> self, v |-> self.names]
  ELSE IF self.resolved # <<>>
  THEN LET p == [self EXCEPT
                   !.names = [i \in 1..Len(self.resolved) |-> self.resolved[i].name]]
       IN [p |-> p, v |-> p.names]
  ELSE [p |-> self, v |-> self.raw_names]

LimitParam(kw) ==
  [type |-> "LimitParam", min |-> NoneInt, max |-> NoneInt]

\* the pattern (?P<min>\d+)?->(?P<max>\d+)? matched at the start of s
LimitMatch(s) ==
  LET mn == DigitPrefix(s)
      r == Drop(s, Len(mn))
  IN [ok |-> StartsWith(r, "->"), min |-> mn, max |-> DigitPrefix(Drop(r, 2))]

\* a faulty variant of LimitParam.parse: the number 0 of the shorthand is
\* taken as not given
LimitParam_parse_zero_unset(self, arg) ==
  IF arg.k = "list" THEN
    LET a0 == int(First(arg)) IN
    IF ~a0.ok THEN Raise(a0.exc, self)
    ELSE IF TopLen(arg.l, 0) < 2 THEN Raise("IndexError", self)
    ELSE LET a1 == int(IF arg.l[2].k = "open" THEN Item("list", "") ELSE arg.l[2])
         IN IF ~a1.ok THEN Raise(a1.exc, self)
            ELSE Parsed([self EXCEPT !.min = Some(a0.v), !.max = Some(a1.v)])
  ELSE IF arg.k = "str" THEN
    LET match == LimitMatch(arg.s) IN
    IF ~match.ok THEN Raise("ValueError", self)
    ELSE Parsed([self EXCEPT
           !.min = IF DigitsToInt(match.min) # 0 THEN Some(DigitsToInt(match.min))
                   ELSE NoneInt,
           !.max = IF DigitsToInt(match.max) # 0 THEN Some(DigitsToInt(match.max))
                   ELSE NoneInt])
  ELSE Parsed(self)

\* LimitParam.parse
LimitParam_parse(self, arg) ==
  IF arg.k = "list" THEN
    LET a0 == int(First(arg)) IN
    IF ~a0.ok THEN Raise(a0.exc, self)
    ELSE IF TopLen(arg.l, 0) < 2 THEN Raise("IndexError", self)
    ELSE LET i1 == arg.l[2]
             a1 == int(IF i1.k = "open" THEN Item("list", "") ELSE i1)
         IN IF ~a1.ok THEN Raise(a1.exc, self)
            ELSE Parsed([self EXCEPT !.min = Some(a0.v), !.max = Some(a1.v)])
  ELSE IF arg.k = "str" THEN
    LET match == LimitMatch(arg.s) IN
    IF ~match.ok THEN Raise("ValueError", self)
    ELSE Parsed([self EXCEPT
           !.min = IF match.min # "" THEN Some(DigitsToInt(match.min)) ELSE NoneInt,
           !.max = IF match.max # "" THEN Some(DigitsToInt(match.max)) ELSE NoneInt])
  ELSE Parsed(self)

\* a faulty variant of CountParam.__init__: count starts as None, the
\* declared minimum is not taken as the default
CountParam_without_default(kw) ==
  [type |-> "CountParam", min |-> kw.min, max |-> kw.max, count |-> NoneInt]

\* CountParam.__init__: count = default if default else min if min else None
\* (no entry of the grammar passes default)
CountParam(kw) ==
  [type |-> "CountParam", min |-> kw.min, max |-> kw.max,
   count |-> IF kw.min.has /\ kw.min.v # 0 THEN kw.min ELSE NoneInt]

\* the pattern x(?P<count>\d+)? matched at the start of s
CountMatch(s) ==
  [ok |-> StartsWith(s, "x"), count |-> DigitPrefix(Drop(s, 1))]

Max(a, b) == IF a >= b THEN a ELSE b
Min(a, b) == IF a <= b THEN a ELSE b

\* the two clamps at the end of CountParam.parse
Clamp(self) ==
  LET lo == IF self.count.has /\ self.count.v # 0 /\ self.min.has /\ self.min.v # 0
            THEN [self EXCEPT !.count = Some(Max(self.count.v, self.min.v))]
            ELSE self
  IN IF lo.count.has /\ lo.count.v # 0 /\ lo.max.has /\ lo.max.v # 0
     THEN [lo EXCEPT !.count = Some(Min(lo.count.v, lo.max.v))]
     ELSE lo

CountParam_parse(self, arg) ==
  IF arg.k = "list" THEN
    LET a0 == int(First(arg)) IN
    IF ~a0.ok THEN Raise(a0.exc, self)
    ELSE Parsed(Clamp([self EXCEPT !.count = Some(a0.v)]))
  ELSE IF arg.k = "str" THEN
    LET match == CountMatch(arg.s) IN
    IF ~match.ok THEN Raise("ValueError", self)
    ELSE Parsed(Clamp([self EXCEPT
           !.count = IF match.count # "" THEN Some(DigitsToInt(match.count))
                     ELSE self.count]))
  ELSE Parsed(Clamp(self))

QuotedStringParam(kw) ==
  [type |-> "QuotedStringParam", value |-> None, quote_type |-> None,
   is_regex |-> FALSE]

\* the least n >= from such that what follows the first n characters of s
\* starts with suffix and the characters from+1..n hold no newline; -1 if none
Lazy(s, from, suffix) ==
  LET ends == {n \in from..Len(s) :
                 /\ StartsWith(Drop(s, n), suffix)
                 /\ \A i \in (from + 1)..n : SubSeq(s, i, i) # "\n"}
  IN IF ends = {} THEN 0 - 1
     ELSE CHOOSE n \in ends : \A m \in ends : n <= m

\* the pattern (?P<quote_type>['"`])(?P<is_regex>/?)(?P<string>.*?)
\*             (?P=is_regex)(?P=quote_type) matched at the start of s
QuotedMatch(s) ==
  IF s = "" \/ Head(s) \notin quotes
  THEN [ok |-> FALSE, quote_type |-> "", is_regex |-> "", string |-> ""]
  ELSE LET q == Head(s)
           slash == IF StartsWith(Drop(s, 1), "/") THEN Lazy(s, 2, "/" \o q)
                    ELSE 0 - 1
           plain == Lazy(s, 1, q)
       IN IF slash >= 0
          THEN [ok |-> TRUE, quote_type |-> q, is_regex |-> "/",
                string |-> SubSeq(s, 3, slash)]
          ELSE IF plain >= 0
          THEN [ok |-> TRUE, quote_type |-> q, is_regex |-> "",
                string |-> SubSeq(s, 2, plain)]
          ELSE [ok |-> FALSE, quote_type |-> "", is_regex |-> "", string |-> ""]

QuotedStringParam_parse(self, arg) ==
  LET a == First(arg) IN
  IF a.k # "str" THEN Raise("TypeError", self)
  ELSE LET match == QuotedMatch(a.s) IN
    IF ~match.ok THEN Raise("ValueError", self)
    ELSE Parsed([self EXCEPT !.value = Some(match.string),
                             !.quote_type = Some(match.quote_type),
                             !.is_regex = (match.is_regex # "") \/ self.is_regex])

FlagsParam(kw) ==
  [type |-> "FlagsParam", flags |-> {}, allowed_flags |-> kw.allowed_flags]

ascii_lowercase ==
  {"a", "b", "c", "d", "e", "f", "g", "h", "i", "j", "k", "l", "m", "n",
   "o", "p", "q", "r", "s", "t", "u", "v", "w", "x", "y", "z"}

LowerPrefix(s) ==
  SubSeq(s, 1, Span(s, ascii_lowercase))

\* the pattern -(?P<flags>[a-z]+) matched at the start of s
FlagsMatch(s) ==
  LET f == LowerPrefix(Drop(s, 1)) IN
  [ok |-> StartsWith(s, "-") /\ f # "", flags |-> f]

CharSet(s) == {SubSeq(s, i, i) : i \in 1..Len(s)}

\* ''.join(arg) of a list of strings; fails on a None or list item
RECURSIVE Join(_)
Join(items) ==
  IF items = <<>> THEN [ok |-> TRUE, s |-> ""]
  ELSE IF Head(items).k # "str" THEN [ok |-> FALSE, s |-> ""]
  ELSE LET r == Join(Tail(items)) IN
       [ok |-> r.ok, s |-> Head(items).s \o r.s]

\* the f-string of a list item: str(None) is "None", str of a list starts "["
Format(item) ==
  CASE item.k = "str" -> item.s
    [] item.k = "none" -> "None"
    [] OTHER -> "["

FlagsParam_parse(self, arg) ==
  LET text ==
        IF arg.k = "list" THEN
          (IF TopLen(arg.l, 0) = 1 THEN [ok |-> TRUE, s |-> "-" \o Format(First(arg))]
           ELSE LET j == Join(arg.l) IN [ok |-> j.ok, s |-> "-" \o j.s])
        ELSE [ok |-> arg.k = "str", s |-> arg.s]
  IN IF ~text.ok THEN Raise("TypeError", self)
     ELSE LET match == FlagsMatch(text.s) IN
       IF ~match.ok THEN Raise("ValueError", self)
       ELSE IF CharSet(match.flags) \subseteq self.allowed_flags
            THEN Parsed([self EXCEPT !.flags = CharSet(match.flags)])
            ELSE Raise("UserFeedbackError", self)

\* cls.test(arg) of the four types that declare a shorthand
test(type, arg) ==
  CASE type = "LimitParam" -> LimitMatch(arg).ok
    [] type = "CountParam" -> CountMatch(arg).ok
    [] type = "QuotedStringParam" -> QuotedMatch(arg).ok
    [] type = "FlagsParam" -> FlagsMatch(arg).ok
    [] type \in {"StringParam", "ChoiceParam"} -> TRUE
    [] type = "DiscordMessageURLParam" -> URLMatch(arg).ok
    [] OTHER -> FALSE

\* a faulty variant of has_shorthand: every parameter type counts as
\* declaring a shorthand
has_shorthand_of_any(type) ==
  TRUE

\* the class attribute shorthand, as add_param reads it: bool(param.shorthand)
has_shorthand(type) ==
  type \in {"LimitParam", "CountParam", "QuotedStringParam", "FlagsParam"}

\* self._args[name].parse(arg)
parse(self, arg) ==
  CASE self.type = "StringParam" -> StringParam_parse(self, arg)
    [] self.type = "ChoiceParam" -> ChoiceParam_parse(self, arg)
    [] self.type = "DiscordMessageURLParam" -> DiscordMessageURLParam_parse(self, arg)
    [] self.type \in {"UsersParam", "ChannelsParam"} -> DiscordResolvableParam_parse(self, arg)
    [] self.type = "LimitParam" -> LimitParam_parse(self, arg)
    [] self.type = "CountParam" -> CountParam_parse(self, arg)
    [] self.type = "QuotedStringParam" -> QuotedStringParam_parse(self, arg)
    [] self.type = "FlagsParam" -> FlagsParam_parse(self, arg)

(***************************************************************************)
(* Grammar (grammar.py)                                                    *)
(***************************************************************************)
RECURSIVE SplitFrom(_, _)
SplitFrom(s, word) ==
  IF s = "" THEN (IF word = "" THEN <<>> ELSE <<word>>)
  ELSE IF Head(s) \in whitespace
       THEN (IF word = "" THEN <<>> ELSE <<word>>) \o SplitFrom(Tail(s), "")
       ELSE SplitFrom(Tail(s), word \o Head(s))

\* str.split(): the maximal runs of non-blank characters
split(s) == SplitFrom(s, "")

\* CommandGrammar.__init__
CommandGrammar(name, mode) ==
  [name |-> name, path |-> split(name), root |-> split(name)[1],
   mode |-> mode, subcommands |-> {}, parameters |-> <<>>,
   positional_order |-> <<>>]

add_subcommands(self, names) ==
  [self EXCEPT !.subcommands = @ \cup names]

\* keyword arguments a grammar entry passes on to its parameter
NoKw ==
  [choices |-> {}, default |-> None, min |-> NoneInt, max |-> NoneInt,
   allowed_flags |-> {}]

\* CommandGrammar.add_param: self.parameters keeps insertion order, the
\* entry of the name first and then the entry of its alias
add_param(self, name, type, alias, kw) ==
  LET entry == [key |-> name, is_alias |-> FALSE, target |-> "", type |-> type,
                has_shorthand |-> has_shorthand(type), kw |-> kw]
      aliased == [key |-> alias, is_alias |-> TRUE, target |-> name, type |-> "",
                  has_shorthand |-> FALSE, kw |-> NoKw]
  IN [self EXCEPT
        !.parameters = IF alias # "" THEN @ \o <<entry, aliased>> ELSE @ \o <<entry>>,
        !.positional_order = IF self.mode \in {"positional", "rest"}
                             THEN Append(@, name) ELSE @]

\* the index of key in self.parameters, 0 if absent
Lookup(params, key) ==
  IF \E i \in 1..Len(params) : params[i].key = key
  THEN CHOOSE i \in 1..Len(params) : params[i].key = key
  ELSE 0

\* the instance a grammar entry constructs
NewParam(entry) ==
  CASE entry.type = "StringParam" -> StringParam(entry.kw)
    [] entry.type = "ChoiceParam" -> ChoiceParam(entry.kw)
    [] entry.type = "DiscordMessageURLParam" -> DiscordMessageURLParam(entry.kw)
    [] entry.type \in {"UsersParam", "ChannelsParam"} -> DiscordResolvableParam(entry.type)
    [] entry.type = "LimitParam" -> LimitParam(entry.kw)
    [] entry.type = "CountParam" -> CountParam(entry.kw)
    [] entry.type = "QuotedStringParam" -> QuotedStringParam(entry.kw)
    [] entry.type = "FlagsParam" -> FlagsParam(entry.kw)

\* a faulty variant of get_all_params: an alias gets an instance as well,
\* of the parameter it stands for
get_all_params_with_aliases(self) ==
  [k \in {self.parameters[i].key : i \in 1..Len(self.parameters)} |->
     LET e == self.parameters[Lookup(self.parameters, k)]
     IN NewParam(IF e.is_alias THEN self.parameters[Lookup(self.parameters, e.target)]
                 ELSE e)]

\* CommandGrammar.get_all_params: one new instance per declared name
get_all_params(self) ==
  LET names == {self.parameters[i].key : i \in
                  {j \in 1..Len(self.parameters) : ~self.parameters[j].is_alias}}
  IN [k \in names |-> NewParam(self.parameters[Lookup(self.parameters, k)])]

\* a faulty variant of get_subcommand: the name is returned without the
\* path of the parent
get_subcommand_unjoined(self, name) ==
  IF name \in self.subcommands THEN Some(name) ELSE None

\* CommandGrammar.get_subcommand
get_subcommand(self, name) ==
  IF name \in self.subcommands THEN Some(self.name \o " " \o name) ELSE None

\* the first entry, in insertion order from index i, whose shorthand accepts arg
RECURSIVE FirstShorthand(_, _, _)
FirstShorthand(params, i, arg) ==
  IF i > Len(params) THEN None
  ELSE IF ~params[i].is_alias /\ params[i].has_shorthand /\ test(params[i].type, arg)
       THEN Some(params[i].key)
       ELSE FirstShorthand(params, i + 1, arg)

\* a faulty variant of get_param_name(name=...): an alias is not followed
get_param_name_by_name_unaliased(self, name) ==
  IF name.k = "str" /\ name.s # "" THEN
    LET i == Lookup(self.parameters, name.s) IN
    IF i = 0 \/ self.parameters[i].is_alias THEN None
    ELSE Some(name.s)
  ELSE None

\* CommandGrammar.get_param_name(name=...)
get_param_name_by_name(self, name) ==
  IF name.k = "str" /\ name.s # "" THEN
    LET i == Lookup(self.parameters, name.s) IN
    IF i = 0 THEN None
    ELSE IF self.parameters[i].is_alias THEN Some(self.parameters[i].target)
    ELSE Some(name.s)
  ELSE None

\* CommandGrammar.get_param_name(arg=...)
get_param_name_by_arg(self, arg) ==
  IF arg.k = "str" /\ arg.s # "" THEN FirstShorthand(self.parameters, 1, arg.s)
  ELSE None

\* a faulty variant of get_param_name(pos=...): the first positional
\* parameter whatever pos is
get_param_name_by_pos_first(self, pos) ==
  IF self.mode \in {"positional", "rest"} /\ pos < Len(self.positional_order)
  THEN Some(self.positional_order[1])
  ELSE None

\* CommandGrammar.get_param_name(pos=...)
get_param_name_by_pos(self, pos) ==
  IF self.mode \in {"positional", "rest"} /\ pos < Len(self.positional_order)
  THEN Some(self.positional_order[pos + 1])
  ELSE None

\* an alias entry of Grammar.grammar: the key maps to another key
Alias(target) ==
  [alias_of |-> target, g |-> CommandGrammar("-", "lexical")]

Command(g) ==
  [alias_of |-> "", g |-> g]

UsersChannels(g) ==
  add_param(add_param(g, "users", "UsersParam", "u", NoKw),
            "channels", "ChannelsParam", "c", NoKw)

CountKw(lo, hi) == [NoKw EXCEPT !.min = Some(lo), !.max = Some(hi)]

MstatsParams(g) ==
  add_param(add_param(UsersChannels(g),
              "flags", "FlagsParam", "", [NoKw EXCEPT !.allowed_flags = {"c", "a"}]),
            "pattern", "QuotedStringParam", "", NoKw)

\* Grammar.grammar
grammar ==
  [key \in {"ping", "help", "config", "config pins_channel", "config prefix",
            "config prefix set", "config prefix reset",
            "config download_channels_blacklist", "admin", "admin init",
            "admin init guild", "admin download", "admin chain", "again",
            "cleanse", "quote", "portal", "gdrive", "vc", "vibe", "vibe check",
            "gen", "generate", "rq", "rquote", "rquote guess", "ri", "rimage",
            "ms", "mstats", "mstats plot"} |->
    CASE key = "help" ->
           Command(add_param(CommandGrammar("help", "rest"),
                             "command", "StringParam", "", NoKw))
      [] key = "config" ->
           Command(add_subcommands(CommandGrammar("config", "lexical"),
                     {"pins_channel", "prefix", "download_channels_blacklist"}))
      [] key = "config pins_channel" ->
           Command(add_param(CommandGrammar("config pins_channel", "positional"),
                     "action", "ChoiceParam", "",
                     [NoKw EXCEPT !.choices = {"set", "remove"}]))
      [] key = "config prefix" ->
           Command(add_subcommands(CommandGrammar("config prefix", "lexical"),
                     {"set", "reset"}))
      [] key = "config prefix set" ->
           Command(add_param(CommandGrammar("config prefix set", "positional"),
                     "prefix", "QuotedStringParam", "", NoKw))
      [] key = "config download_channels_blacklist" ->
           Command(add_param(
                     CommandGrammar("config download_channels_blacklist", "positional"),
                     "action", "ChoiceParam", "",
                     [NoKw EXCEPT !.choices = {"add", "remove"}]))
      [] key = "admin" ->
           Command(add_subcommands(CommandGrammar("admin", "lexical"),
                     {"init", "download", "chain"}))
      [] key = "admin init" ->
           Command(add_subcommands(CommandGrammar("admin init", "lexical"),
                     {"admin init guild"}))
      [] key = "admin download" ->
           Command(add_param(CommandGrammar("admin download", "lexical"),
                     "channels", "ChannelsParam", "c", NoKw))
      [] key = "quote" ->
           Command(add_param(add_param(CommandGrammar("quote", "positional"),
                     "url1", "DiscordMessageURLParam", "", NoKw),
                     "url2", "DiscordMessageURLParam", "", NoKw))
      [] key = "portal" ->
           Command(add_param(CommandGrammar("portal", "lexical"),
                     "channel", "ChannelsParam", "c", NoKw))
      [] key = "gdrive" ->
           Command(add_param(CommandGrammar("gdrive", "positional"),
                     "url", "StringParam", "", NoKw))
      [] key = "vc" -> Alias("vibe check")
      [] key = "vibe" ->
           Command(add_subcommands(CommandGrammar("vibe", "lexical"), {"check"}))
      [] key = "gen" -> Alias("generate")
      [] key = "generate" ->
           Command(add_param(add_param(add_param(
                     UsersChannels(add_param(CommandGrammar("generate", "lexical"),
                       "algorithm", "ChoiceParam", "a",
                       [NoKw EXCEPT !.choices = {"1", "original", "markov", "2", "madlibs"},
                                    !.default = Some("original")])),
                     "limit", "LimitParam", "", NoKw),
                     "count", "CountParam", "", CountKw(1, 25)),
                     "blueprint", "QuotedStringParam", "", NoKw))
      [] key = "rq" -> Alias("rquote")
      [] key = "rquote" ->
           Command(add_param(add_param(
                     UsersChannels(add_subcommands(CommandGrammar("rquote", "lexical"),
                                                   {"guess"})),
                     "limit", "LimitParam", "", NoKw),
                     "count", "CountParam", "", CountKw(1, 5)))
      [] key = "rquote guess" ->
           Command(add_param(add_param(add_param(
                     CommandGrammar("rquote guess", "lexical"),
                     "channels", "ChannelsParam", "c", NoKw),
                     "limit", "LimitParam", "", NoKw),
                     "count", "CountParam", "", CountKw(1, 5)))
      [] key = "ri" -> Alias("rimage")
      [] key = "rimage" ->
           Command(add_param(UsersChannels(CommandGrammar("rimage", "lexical")),
                     "count", "CountParam", "", CountKw(1, 5)))
      [] key = "ms" -> Alias("mstats")
      [] key = "mstats" ->
           Command(MstatsParams(add_subcommands(CommandGrammar("mstats", "lexical"),
                                                {"plot"})))
      [] key = "mstats plot" ->
           Command(MstatsParams(CommandGrammar("mstats plot", "lexical")))
      [] OTHER ->
           \* ping, config prefix reset, admin init guild, admin chain, again,
           \* cleanse, vibe check: CommandGrammar(key) with a description only
           Command(CommandGrammar(key, "lexical"))]

\* Grammar.resolve_alias
resolve_alias(name) ==
  IF name \in DOMAIN grammar THEN
    (IF grammar[name].alias_of # "" THEN Some(grammar[name].alias_of) ELSE Some(name))
  ELSE None

\* str.split(' '): the pieces between single blanks, the empty ones kept
RECURSIVE split_blank(_)
split_blank(s) ==
  LET n == SpanUntil(s, " ")
  IN IF n = Len(s) THEN <<s>>
     ELSE <<SubSeq(s, 1, n)>> \o split_blank(Drop(s, n + 1))

\* the f-string of line 351: str(None) is "None"
FormatBase(base) ==
  IF base.has THEN base.v ELSE "None"

\* the loop of lines 350-351 over path[1:]
RECURSIVE resolve_fragments(_, _)
resolve_fragments(base, fragments) ==
  IF fragments = <<>> THEN base
  ELSE resolve_fragments(
         resolve_alias(FormatBase(base) \o " " \o Head(fragments)),
         Tail(fragments))

\* the path of find_base resolved without its first alias step (line 349
\* left out); stands in for find_base_path where the model is weakened
find_base_path_unresolved(base) ==
  LET path == split_blank(base)
  IN resolve_fragments(Some(path[1]), Tail(path))

\* lines 348-351: the path resolved prefix by prefix
find_base_path(base) ==
  LET path == split_blank(base)
  IN resolve_fragments(resolve_alias(path[1]), Tail(path))

\* Grammar.find_base(base, resolve_aliases); base is a string.  The result
\* is a key of Grammar.grammar, which stands for the entry stored under it
\* (line 353: cls.grammar[base]).
find_base(base, resolve_aliases) ==
  IF base = "" THEN None
  ELSE LET last == IF resolve_aliases THEN find_base_path(base) ELSE Some(base)
       IN IF last.has THEN resolve_alias(last.v) ELSE None

(***************************************************************************)
(* Pins (utils/database/pins.py); db is the value of every pins table      *)
(***************************************************************************)
\* the ids of the guilds the bot is in
GuildIds == {1, 2}

\* what a database function did: the tables after it, and what it returned
\* or raised
Done(db, exc, v) == [db |-> db, exc |-> exc, v |-> v]

\* init_guild: CREATE TABLE IF NOT EXISTS g<guild_id>_pins
init_guild(db, guild_id) ==
  Done([db EXCEPT ![guild_id].exists = TRUE], "", NoneInt)

\* alert_missing_pins: f is called, what it returned is dropped, and f is
\* called again; first and second are what the two calls do
alert_missing_pins(first, second) ==
  IF first.exc # ""
  THEN Done(first.db,
            IF first.exc = "ER_NO_SUCH_TABLE" THEN "UserFeedbackError"
            ELSE first.exc,
            NoneInt)
  ELSE second

\* the body of pin_message: INSERT and commit
insert_pin(db, guild_id, original_msg_id, pin_msg_id) ==
  IF ~db[guild_id].exists THEN Done(db, "ER_NO_SUCH_TABLE", NoneInt)
  ELSE Done([db EXCEPT ![guild_id].rows =
               Append(@, [original |-> original_msg_id, pin |-> pin_msg_id])],
            "", NoneInt)

pin_message(db, guild_id, original_msg_id, pin_msg_id) ==
  alert_missing_pins(
    insert_pin(db, guild_id, original_msg_id, pin_msg_id),
    insert_pin(insert_pin(db, guild_id, original_msg_id, pin_msg_id).db,
               guild_id, original_msg_id, pin_msg_id))

\* the body of get_pin_msg_id: SELECT and fetchone, the first row found
select_pin(db, guild_id, original_msg_id) ==
  IF ~db[guild_id].exists THEN Done(db, "ER_NO_SUCH_TABLE", NoneInt)
  ELSE LET rows == db[guild_id].rows
           found == {i \in 1..Len(rows) : rows[i].original = original_msg_id}
       IN IF found = {} THEN Done(db, "", NoneInt)
          ELSE Done(db, "",
                    Some(rows[CHOOSE i \in found : \A j \in found : i <= j].pin))

get_pin_msg_id(db, guild_id, original_msg_id) ==
  alert_missing_pins(select_pin(db, guild_id, original_msg_id),
                     select_pin(db, guild_id, original_msg_id))

\* the rows of a table without those of original_msg_id
RECURSIVE delete_rows(_, _)
delete_rows(rows, original_msg_id) ==
  IF rows = <<>> THEN <<>>
  ELSE (IF Head(rows).original = original_msg_id THEN <<>> ELSE <<Head(rows)>>)
         \o delete_rows(Tail(rows), original_msg_id)

\* the body of unpin_message
delete_pin(db, guild_id, original_msg_id) ==
  LET pin_msg_id == get_pin_msg_id(db, guild_id, original_msg_id)
  IN IF pin_msg_id.exc # "" THEN pin_msg_id
     ELSE IF pin_msg_id.v.has /\ pin_msg_id.v.v # 0
     THEN Done([db EXCEPT ![guild_id].rows = delete_rows(@, original_msg_id)],
               "", pin_msg_id.v)
     ELSE Done(db, "", NoneInt)

unpin_message(db, guild_id, original_msg_id) ==
  alert_missing_pins(
    delete_pin(db, guild_id, original_msg_id),
    delete_pin(delete_pin(db, guild_id, original_msg_id).db,
               guild_id, original_msg_id))

\* init_shared: CREATE TABLE IF NOT EXISTS config
init_shared(db) == [db EXCEPT !.exists = TRUE]

\* fix_missing_shared: f is called; on a missing table the shared tables
\* are made and the wrapper is called again (retried); any other error is
\* raised; otherwise what f returned is dropped and f is called again
\* (second)
fix_missing_shared(first, second, retried) ==
  IF first.exc = "ER_NO_SUCH_TABLE" THEN retried
  ELSE IF first.exc # "" THEN first
  ELSE second

\* supply_cursor and the body of get_prefix: cnx.ping raises when the
\* server is not reached (up is false); SELECT prefix and fetchone
select_prefix(db, guild_id, up) ==
  IF ~up THEN Done(db, "InterfaceError", None)
  ELSE IF ~db.exists THEN Done(db, "ER_NO_SUCH_TABLE", None)
  ELSE Done(db, "", IF db.rows[guild_id].row THEN db.rows[guild_id].prefix
                    ELSE None)

\* supply_cursor and the body of set_prefix: UPDATE config SET prefix
\* WHERE guild_id, and commit
update_prefix(db, guild_id, prefix, up) ==
  IF ~up THEN Done(db, "InterfaceError", None)
  ELSE IF ~db.exists THEN Done(db, "ER_NO_SUCH_TABLE", None)
  ELSE Done(IF db.rows[guild_id].row
            THEN [db EXCEPT !.rows[guild_id].prefix = prefix]
            ELSE db,
            "", None)

\* the body of add_guild: INSERT INTO config (guild_id) ON DUPLICATE KEY
\* UPDATE guild_id=guild_id
insert_guild(db, guild_id) ==
  IF ~db.exists THEN Done(db, "ER_NO_SUCH_TABLE", None)
  ELSE Done([db EXCEPT !.rows[guild_id].row = TRUE], "", None)

\* get_prefix under fix_missing_shared; the lost-th call of the body finds
\* the server gone (0: none does).  The wrapper called again after
\* init_shared finds the table, so that it is not called a third time
get_prefix(db, guild_id, lost) ==
  fix_missing_shared(
    select_prefix(db, guild_id, lost # 1),
    select_prefix(db, guild_id, lost # 2),
    fix_missing_shared(select_prefix(init_shared(db), guild_id, lost # 2),
                       select_prefix(init_shared(db), guild_id, lost # 3),
                       Done(init_shared(db), "ER_NO_SUCH_TABLE", None)))

set_prefix(db, guild_id, prefix, lost) ==
  fix_missing_shared(
    update_prefix(db, guild_id, prefix, lost # 1),
    update_prefix(update_prefix(db, guild_id, prefix, lost # 1).db,
                  guild_id, prefix, lost # 2),
    fix_missing_shared(
      update_prefix(init_shared(db), guild_id, prefix, lost # 2),
      update_prefix(update_prefix(init_shared(db), guild_id, prefix, lost # 2).db,
                    guild_id, prefix, lost # 3),
      Done(init_shared(db), "ER_NO_SUCH_TABLE", None)))

add_guild(db, guild_id) ==
  fix_missing_shared(
    insert_guild(db, guild_id),
    insert_guild(insert_guild(db, guild_id).db, guild_id),
    fix_missing_shared(
      insert_guild(init_shared(db), guild_id),
      insert_guild(insert_guild(init_shared(db), guild_id).db, guild_id),
      Done(init_shared(db), "ER_NO_SUCH_TABLE", None)))

(***************************************************************************)
(* PrefixStore (hawkbot.py)                                                *)
(***************************************************************************)
\* Hawkbot.default_prefix
default_prefix == "hb "

\* PrefixStore.__init__: _prefixes holds no guild
PrefixStore(default) ==
  [prefixes |-> [g \in GuildIds |-> None], default |-> default]

\* PrefixStore.__getitem__: the store and the table after it, and what it
\* returned or raised
PrefixStore_getitem(self, db, guild_id, lost) ==
  IF self.prefixes[guild_id].has
  THEN [self |-> self, db |-> db, exc |-> "", v |-> self.prefixes[guild_id]]
  ELSE LET prefix == get_prefix(db, guild_id, lost)
       IN IF prefix.exc # ""
          THEN [self |-> self, db |-> prefix.db, exc |-> prefix.exc, v |-> None]
          ELSE [self |-> [self EXCEPT !.prefixes[guild_id] =
                            IF prefix.v.has THEN prefix.v ELSE Some(self.default)],
                db |-> prefix.db, exc |-> "",
                v |-> IF prefix.v.has THEN prefix.v ELSE Some(self.default)]

\* PrefixStore.__setitem__
PrefixStore_setitem(self, db, guild_id, prefix, lost) ==
  LET set == set_prefix(db, guild_id, prefix, lost)
  IN IF set.exc # ""
     THEN [self |-> self, db |-> set.db, exc |-> set.exc, v |-> None]
     ELSE [self |-> [self EXCEPT !.prefixes[guild_id] =
                       IF prefix.has THEN prefix ELSE Some(self.default)],
           db |-> set.db, exc |-> "", v |-> None]

(***************************************************************************)
(* SizedDict (utils/misc.py)                                               *)
(***************************************************************************)
\* SizedDict(size=size): an empty dict and an empty Queue(size)
SizedDict(size) == [size |-> size, key_queue |-> <<>>, dict |-> <<>>]

\* Queue.full(): a Queue of maxsize 0 or less is never full
full(self) == self.size > 0 /\ Len(self.key_queue) >= self.size

\* SizedDict.__setitem__: the object after it and what it raised; del of a
\* key the dict does not hold raises KeyError after the key has left the
\* queue
SizedDict_setitem(self, key, value) ==
  IF full(self) /\ Head(self.key_queue) \notin DOMAIN self.dict
  THEN [self |-> [self EXCEPT !.key_queue = Tail(@)], exc |-> "KeyError"]
  ELSE LET removed ==
             IF full(self)
             THEN [self EXCEPT
                     !.key_queue = Tail(@),
                     !.dict = [k \in DOMAIN @ \ {Head(self.key_queue)} |-> @[k]]]
             ELSE self
       IN [self |-> [removed EXCEPT
                       !.key_queue = Append(@, key),
                       !.dict = [k \in DOMAIN @ \cup {key} |->
                                   IF k = key THEN value ELSE @[k]]],
           exc |-> ""]

(***************************************************************************)
(* Repeatable commands and again (hawkbot.py)                              *)
(***************************************************************************)
\* the ids of the channels the bot reads
ChannelIds == {41, 42}

\* _channel_memory_factory: 'last_command' is None, written <<>>; a
\* recorded one is the tuple <<LastCommand, result>>
channel_memory_factory == <<>>

\* LastCommand(msg, cmd, function), without args and kwargs: no handler is
\* called with any
LastCommand(msg, cmd, function) ==
  [msg |-> msg, cmd |-> cmd, function |-> function]

\* what a handler returns: False or None, True, or the message it sent
\* (id is 0 when it is no message)
Result(truthy, id) == [truthy |-> truthy, id |-> id]

\* the wrapper of repeatable(f), after f has returned result: the memory
\* it leaves
repeatable(memory, f, msg, cmd, result) ==
  IF result.truthy
  THEN [memory EXCEPT ![msg.channel] = <<LastCommand(msg, cmd, f), result>>]
  ELSE memory

\* Hawkbot.again(msg): the memory after it, what it returned or raised and
\* the call it made; result is what the called handler returns
again(memory, msg, result) ==
  IF memory[msg.channel] = <<>>
  THEN [memory |-> memory, exc |-> "TypeError", v |-> Result(FALSE, 0),
        invoked |-> <<>>]
  ELSE LET last_cmd == memory[msg.channel][1]
       IN [memory |-> repeatable(memory, last_cmd.function, last_cmd.msg,
                                 last_cmd.cmd, result),
           exc |-> "", v |-> result,
           invoked |-> <<last_cmd.function, last_cmd.msg, last_cmd.cmd>>]

\* Hawkbot.repeat_command_reaction: repeat says that the emoji is
\* REPEAT_EMOJI, message is reaction.message
repeat_command_reaction(memory, repeat, message, result) ==
  IF ~repeat \/ memory[message.channel] = <<>>
  THEN [memory |-> memory, exc |-> "", v |-> Result(FALSE, 0), invoked |-> <<>>]
  ELSE LET sent_msg == memory[message.channel][2]
       IN IF sent_msg.id = 0
          THEN [memory |-> memory, exc |-> "AttributeError",
                v |-> Result(FALSE, 0), invoked |-> <<>>]
          ELSE IF message.id # sent_msg.id
          THEN [memory |-> memory, exc |-> "", v |-> Result(FALSE, 0),
                invoked |-> <<>>]
          ELSE [again(memory, message, result) EXCEPT !.v = Result(TRUE, 0)]

(***************************************************************************)
(* ParsedCommand (command_parser.py)                                       *)
(***************************************************************************)
\* ParsedCommand.__init__; _mode starts as False, which is no ParsingMode
ParsedCommand ==
  [base |-> None, args |-> <<>>, args_encountered |-> FALSE,
   mode |-> "False", current_pos |-> 0]

\* ParsedCommand.__getattr__: the parameter called arg, or AttributeError
getattr(self, arg) ==
  IF arg \in DOMAIN self.args
  THEN [ok |-> TRUE, exc |-> "", v |-> self.args[arg]]
  ELSE [ok |-> FALSE, exc |-> "AttributeError", v |-> None]

\* what a call of add or set_base did: returned, or raised signal
\* (NoCommandFound, UnknownArgument, ChangeParsingMode carrying mode, or an
\* exception of a parameter); name is the parameter the call bound, if any
Did(cmd, signal, mode, name) ==
  [cmd |-> cmd, signal |-> signal, mode |-> mode, name |-> name]

\* ParsedCommand.set_base; base is what find_base returned
set_base(self, base) ==
  IF ~base.has THEN
    \* base.mode of None
    Did([self EXCEPT !.base = None, !.args = <<>>], "AttributeError", "", None)
  ELSE
    LET g == grammar[base.v].g
        c1 == [self EXCEPT !.base = base, !.args = get_all_params(g)]
    IN IF g.mode # self.mode
       THEN Did([c1 EXCEPT !.mode = g.mode], "ChangeParsingMode", g.mode, None)
       ELSE Did(c1, "return", "", None)

\* a faulty variant of parsed_argument: the parameters are made anew at each
\* bind, so that an argument wipes out the ones bound before it
parsed_argument_on_new_params(self, name, r) ==
  Did([self EXCEPT !.args_encountered = TRUE,
                   !.args = [get_all_params(grammar[self.base.v].g)
                               EXCEPT ![name.v] = r.p]],
      IF r.ok THEN "return" ELSE r.exc, "", name)

\* lines 114-118 with the outcome r of self._args[name].parse(arg)
parsed_argument(self, name, r) ==
  Did([self EXCEPT !.args_encountered = TRUE, !.args[name.v] = r.p],
      IF r.ok THEN "return" ELSE r.exc, "", name)

\* lines 114-118: the argument is parsed by the parameter called name, or
\* UnknownArgument is raised
bind_argument(self, name, arg) ==
  IF ~name.has THEN Did(self, "UnknownArgument", "", None)
  ELSE parsed_argument(self, name, parse(self.args[name.v], arg))

\* the part of ParsedCommand.add that interprets item as an argument
add_argument(self, item, data) ==
  IF self.mode = "lexical" THEN
    IF Truthy(data)
    THEN bind_argument(self, get_param_name_by_name(grammar[self.base.v].g, item), data)
    ELSE bind_argument(self, get_param_name_by_arg(grammar[self.base.v].g, item), item)
  ELSE IF self.mode \in {"positional", "rest"} THEN
    bind_argument([self EXCEPT !.current_pos = @ + 1],
                  get_param_name_by_pos(grammar[self.base.v].g, self.current_pos),
                  item)
  ELSE Did(self, "ValueError", "", None)

\* a faulty variant of add: line 85 without the test of _args_encountered
add_without_args_encountered(self, item, data) ==
  IF ~self.base.has THEN
    IF item.k = "list" /\ item.l # <<>> THEN
      Did(self, "TypeError", "", None)
    ELSE LET base == find_base(item.s, FALSE) IN
      IF base.has THEN set_base(self, base)
      ELSE Did(self, "NoCommandFound", "", None)
  ELSE
    LET g == grammar[self.base.v].g
        subcommand == IF ~Truthy(data) /\ item.k = "str"
                      THEN get_subcommand(g, item.s) ELSE None
    IN IF subcommand.has THEN set_base(self, find_base(subcommand.v, FALSE))
       ELSE add_argument(self, item, data)

\* ParsedCommand.add(item, data); data is NoneTok when not given
add(self, item, data) ==
  IF ~self.base.has THEN
    IF item.k = "list" /\ item.l # <<>> THEN
      \* resolve_alias tests an unhashable list for membership in the dict
      Did(self, "TypeError", "", None)
    ELSE LET base == find_base(item.s, FALSE) IN
      IF base.has THEN set_base(self, base)
      ELSE Did(self, "NoCommandFound", "", None)
  ELSE
    LET g == grammar[self.base.v].g
        subcommand == IF ~self.args_encountered /\ ~Truthy(data) /\ item.k = "str"
                      THEN get_subcommand(g, item.s) ELSE None
    IN IF subcommand.has THEN set_base(self, find_base(subcommand.v, FALSE))
       ELSE add_argument(self, item, data)

(***************************************************************************)
(* Parser (command_parser.py)                                              *)
(***************************************************************************)
\* Parser.__init__
Parser ==
  NewLexer

\* No parse_command is running.  Beside the locals of parse_command the
\* frame keeps a record of the run for the properties below: text (the
\* argument), bound (the parameters bound for the current base),
\* arg_profile (the wordchars under which arg was read), clean (the lexer
\* held no residue of an earlier parse when this one began) and before
\* (the parameters the previous parse had bound in the command it returned)
Idle ==
  [pc |-> "idle", text |-> "", prev_arg |-> NoneTok, arg |-> NoneTok,
   seq |-> <<>>, depth |-> 0, ret |-> "", bound |-> {}, arg_profile |-> "",
   clean |-> TRUE, before |-> {}]

\* what parse_command gave its caller
Pending == [kind |-> "pending", exc |-> "", command |-> ParsedCommand]
Returned(cmd) ==
  IF cmd.base.has THEN [kind |-> "ParsedCommand", exc |-> "", command |-> cmd]
  ELSE [kind |-> "None", exc |-> "", command |-> ParsedCommand]
ReturnedNone == [kind |-> "None", exc |-> "", command |-> ParsedCommand]
Raised(exc) == [kind |-> "raise", exc |-> exc, command |-> ParsedCommand]

\* parse_command has ended with outcome out; control is back in the caller
Leave(st, out) ==
  [st EXCEPT !.outcome = out, !.frame.pc = "returned"]

\* parse_command, lines 168-173: the reset of the lexer and the new command
parse_command(st, text) ==
  [lexer |-> [set_parse_mode([st.lexer EXCEPT !.state = " "], "lexical")
                EXCEPT !.instream = text],
   command |-> ParsedCommand,
   frame |-> [Idle EXCEPT !.pc = "first", !.text = text,
                          !.clean = st.lexer.pushback = <<>> /\ st.lexer.token = "",
                          !.before = st.frame.before],
   outcome |-> Pending]

\* parse_token has produced value for the statement that called it:
\* line 174 (prev_arg = arg = ...) or line 177 (arg = ...), followed by the
\* loop test of line 176 in the first case
Deliver(st, at, value) ==
  IF at = "first" THEN
    [st EXCEPT !.frame.prev_arg = value, !.frame.arg = value,
               !.frame.arg_profile = st.lexer.wordchars,
               !.frame.pc = IF value.k = "none" THEN "return" ELSE "loop"]
  ELSE
    [st EXCEPT !.frame.arg = value, !.frame.pc = "body",
               !.frame.arg_profile = st.lexer.wordchars]

\* Parser.parse_token called from parse_command
parse_token(st) ==
  LET t == get_token(st.lexer)
      s1 == [st EXCEPT !.lexer = t.lexer]
  IN IF t.err # "" THEN Leave(s1, Raised(t.err))
     ELSE IF t.tok = "" THEN Deliver(s1, st.frame.pc, NoneTok)
     ELSE IF t.tok = "[" THEN
       [s1 EXCEPT !.frame.pc = "seq", !.frame.ret = st.frame.pc,
                  !.frame.seq = <<>>, !.frame.depth = 1]
     ELSE Deliver(s1, st.frame.pc, Str(t.tok))

\* the None items at the end of a sequence
RECURSIVE TrailingNones(_)
TrailingNones(seq) ==
  IF seq # <<>> /\ seq[Len(seq)].k = "none"
  THEN 1 + TrailingNones(SubSeq(seq, 1, Len(seq) - 1))
  ELSE 0

\* seq.append(item); a run of None items longer than MaxEofItems is cut
\* (only the end of the input yields None, and then every later item is None)
AppendItem(seq, item) ==
  IF item.k = "none" /\ TrailingNones(seq) >= MaxEofItems THEN seq
  ELSE Append(seq, item)

\* one turn of the while loop of the innermost running Parser.parse_sequence
parse_sequence(st) ==
  LET t == get_token(st.lexer)
      s1 == [st EXCEPT !.lexer = t.lexer]
  IN IF t.err # "" THEN Leave(s1, Raised(t.err))
     ELSE IF t.tok = "" THEN
       [s1 EXCEPT !.frame.seq = AppendItem(@, Item("none", ""))]
     ELSE IF t.tok = "[" THEN
       [s1 EXCEPT !.frame.seq = Append(@, Item("open", "")),
                  !.frame.depth = @ + 1]
     ELSE IF t.tok = "]" THEN
       (IF st.frame.depth = 1
        THEN Deliver([s1 EXCEPT !.frame.seq = <<>>, !.frame.depth = 0,
                                !.frame.ret = ""],
                     st.frame.ret, List(st.frame.seq))
        ELSE [s1 EXCEPT !.frame.seq = Append(@, Item("close", "")),
                        !.frame.depth = @ - 1])
     ELSE [s1 EXCEPT !.frame.seq = Append(@, Item("str", t.tok))]

\* the f-string of line 198
FormatRest(arg, rest) ==
  Format(Item(arg.k, arg.s)) \o " " \o rest

\* the end of one turn of the token loop: prev_arg is set, and the loop
\* test of line 176 decides between another turn and line 217
Turn(st, prev_arg) ==
  [st EXCEPT !.frame.prev_arg = prev_arg,
             !.frame.pc = IF st.frame.arg.k = "none" THEN "return" ELSE "loop"]

\* a faulty variant of Escape: the handlers of lines 209-214 catch the
\* ValueError of a parameter as well, and None is returned for it
Escape_catching_ValueError(st, signal) ==
  IF signal \in {"NoCommandFound", "UnknownArgument", "ValueError"}
  THEN Leave(st, ReturnedNone)
  ELSE Leave(st, Raised(signal))

\* how parse_command ends when add raised signal out of the try block
Escape(st, signal) ==
  IF signal \in {"NoCommandFound", "UnknownArgument"} THEN Leave(st, ReturnedNone)
  ELSE Leave(st, Raised(signal))

\* the names bound for the current base: emptied when the base changes
Bound(st, before, r) ==
  IF r.cmd.base # before.base THEN {}
  ELSE IF r.name.has THEN st.frame.bound \cup {r.name.v}
  ELSE st.frame.bound

\* st with the command as the call r of add left it
Added(st, r) ==
  [st EXCEPT !.command = r.cmd, !.frame.bound = Bound(st, st.command, r)]

\* line 183 after command.add(prev_arg, data=arg) ended as r
after_list(st, r) ==
  IF r.signal = "return" THEN Turn(Added(st, r), NoneTok)
  ELSE Escape(Added(st, r), r.signal)

\* lines 196-201 after the add of the rest of the stream ended as r
after_rest(st, r) ==
  IF r.signal = "return"
  THEN [Added(st, r) EXCEPT !.lexer.instream = "", !.frame.pc = "return"]
  ELSE Escape([Added(st, r) EXCEPT !.lexer.instream = ""], r.signal)

\* lines 190-204 after command.add(prev_arg) ended as r
after_bare(st, r) ==
  IF r.signal = "return" THEN Turn(Added(st, r), st.frame.arg)
  ELSE IF r.signal = "ChangeParsingMode" THEN
    (IF r.mode = "rest" THEN
       after_rest(Added(st, r),
                  add(r.cmd,
                      IF st.lexer.instream # ""
                      THEN Str(FormatRest(st.frame.arg, st.lexer.instream))
                      ELSE st.frame.arg,
                      NoneTok))
     ELSE Turn([Added(st, r) EXCEPT !.lexer = set_parse_mode(@, r.mode)],
               st.frame.arg))
  ELSE Escape(Added(st, r), r.signal)

\* the body of the token loop, lines 179-208, with arg just read
loop_body(st) ==
  IF st.frame.arg.k = "list" THEN
    after_list(st, add(st.command, st.frame.prev_arg, st.frame.arg))
  ELSE IF Truthy(st.frame.prev_arg) THEN
    after_bare(st, add(st.command, st.frame.prev_arg, NoneTok))
  ELSE Turn(st, st.frame.arg)

\* line 217
return(st) ==
  Leave(st, Returned(st.command))

(***************************************************************************)
(* Command texts                                                           *)
(***************************************************************************)
\* the fragments a family of command texts is put together from
Words(v) ==
  CASE v = "seq" -> {"gen", "[", "]", " ", "u", "x"}
    [] v = "quote" -> {"gen", " ", "\"", "a", "x5"}
    [] v = "rest" -> {"help", " ", "\t", "a", ",", "gen"}
    [] v = "pos" -> {"gdrive ", "a,b", "config ", "pins_channel", " set", "[]"}
    [] v = "args" -> {"rq ", "guess ", "x3 ", "->2 ", "u[h] ", "[] "}
    [] v = "path" -> {"config ", "prefix ", "set ", "ms ", "plot ", "vc "}
    [] v = "alias" -> {"vc ", "vibe ", "check ", "[a] ", "gen ", "generate "}
    [] v = "help" -> {"help ", "rq", " guess", "vc", " ", "foo"}
    [] v = "count" -> {"gen ", "rq ", "x0 ", "x50 ", "count[-5] "}
    [] v = "flags" -> {"ms ", "plot ", "-ca ", "-cf ", "flags[f] ", "-cF "}
    [] v = "reject" -> {"gen ", "blueprint[x] ", "config prefix set ", "x ",
                        "\"a\" "}
    [] v = "urls" -> {"quote ", "gdrive ", "x ",
                      "https://discordapp.com/channels/1/2/3 "}
    [] v = "limit" -> {"rq ", "gen ", "0->12 ", "->7 ", "3-> ", "limit[3 12] "}
    [] v = "regex" -> {"ms ", "\"/a/\" ", "\"b\" ", "pattern[x] ", "'/' ",
                       "pattern[´/b/´] "}
    [] v = "choice" -> {"gen ", "a[markov] ", "a[x] ", "config pins_channel ",
                        "set ", "x "}
    [] v = "restlist" -> {"help ", "[a] ", "a", "gdrive ", ","}
    [] v = "shorthand" -> {"gen ", "ms ", "-", ">", "x1", " "}
    [] v = "admin" -> {"admin ", "init ", "guild ", "chain ", "download "}

Families ==
  {"seq", "quote", "rest", "pos", "args", "path", "alias", "help",
   "count", "flags", "reject", "urls", "choice",
   "limit", "regex", "restlist", "shorthand", "admin"}

RECURSIVE Concat(_)
Concat(ws) ==
  IF ws = <<>> THEN "" ELSE Head(ws) \o Concat(Tail(ws))

\* the command texts of a family: at most MaxWords fragments, joined
Inputs(v) ==
  {Concat(ws) : ws \in UNION {[1..n -> Words(v)] : n \in 0..MaxWords}}

(***************************************************************************)
(* The bot: one Parser, one message parsed at a time                       *)
(***************************************************************************)
State == [lexer |-> lexer, command |-> command, frame |-> frame,
          outcome |-> outcome]

\* Grammar.get_command_names; the order of the names is left out
get_command_names ==
  {k \in DOMAIN grammar : grammar[k].alias_of = "" /\ split_blank(k) = <<k>>}

NoEmbed == [title |-> "", names |-> {}]

\* Hawkbot.help: the embed it sends (title, and the names it lists)
help(cmd) ==
  LET specified_command == getattr(cmd, "command").v.value
  IN IF specified_command.has /\ specified_command.v # "" THEN
       LET base == find_base(specified_command.v, TRUE)
       IN IF base.has
          THEN [title |-> "**" \o grammar[base.v].g.name \o "**", names |-> {}]
          ELSE [title |-> "This command doesn't exist", names |-> {}]
     ELSE [title |-> "Hawkbot help", names |-> get_command_names]

\* a step inside parse_command; nothing is sent while it runs
Becomes(st) ==
  /\ lexer' = st.lexer
  /\ command' = st.command
  /\ frame' = st.frame
  /\ outcome' = st.outcome
  /\ embed' = NoEmbed
  /\ UNCHANGED <<vocab, guild, param, reply, pins, tasks, config, prefixes,
                 channel_memory, rquote_memory>>

\* what runs next inside parse_command
Step(st) ==
  CASE st.frame.pc \in {"first", "loop"} -> parse_token(st)
    [] st.frame.pc = "seq" -> parse_sequence(st)
    [] st.frame.pc = "body" -> loop_body(st)
    [] st.frame.pc = "return" -> return(st)
    [] OTHER -> st

\* parse_command run from st until it returns or raises; a run that stops
\* changing without returning is in the endless loop of parse_sequence
RECURSIVE Run(_)
Run(st) ==
  IF st.frame.pc \in {"returned", "idle"} THEN st
  ELSE LET n == Step(st) IN IF n = st THEN st ELSE Run(n)

\* what parse_command(text) gives on a Parser that never parsed before
FreshOutcome(text) ==
  Run(parse_command([lexer |-> Parser, command |-> ParsedCommand,
                     frame |-> Idle, outcome |-> Pending], text)).outcome


\* the bot has started and no message has come: no coroutine runs, no
\* handler has called anything, no guild has its pins table
Started ==
  /\ lexer = Parser
  /\ command = ParsedCommand
  /\ frame = Idle
  /\ outcome = Pending
  /\ embed = NoEmbed
  /\ tasks = [m \in 1..MaxMessages |-> "new"]
  /\ reply = [call |-> "", exc |-> "", v |-> <<>>]
  /\ pins = [g \in GuildIds |-> [exists |-> FALSE, rows |-> <<>>]]
  /\ config = [exists |-> FALSE,
               rows |-> [g \in GuildIds |-> [row |-> FALSE, prefix |-> None]]]
  /\ prefixes = PrefixStore(default_prefix)
  /\ channel_memory = [c \in ChannelIds |-> channel_memory_factory]

Init ==
  /\ Started
  /\ rquote_memory = SizedDict(10)
  /\ vocab \in Families
  /\ guild = [members |-> <<>>, text_channels |-> <<>>]
  /\ param = DiscordResolvableParam("UsersParam")

\* a message arrives: Hawkbot.commands calls self.parser(args)
ParseCommand ==
  /\ frame.pc = "idle"
  /\ \E text \in Inputs(vocab) : Becomes(parse_command(State, text))

ParseToken ==
  /\ frame.pc \in {"first", "loop"}
  /\ Becomes(parse_token(State))

ParseSequence ==
  /\ frame.pc = "seq"
  /\ Becomes(parse_sequence(State))

LoopBody ==
  /\ frame.pc = "body"
  /\ Becomes(loop_body(State))

Return ==
  /\ frame.pc = "return"
  /\ Becomes(return(State))

\* Hawkbot.commands goes on with cmd, or the exception unwinds it; the
\* parser is free for the next message.  What the stream of the ended
\* parse still holds is dropped with the locals of parse_command: line 171
\* replaces the stream before the lexer reads again.
\* A command whose root is help goes to Hawkbot.help (lines 179-190).
Commands ==
  /\ frame.pc = "returned"
  /\ lexer' = [lexer EXCEPT !.instream = ""]
  /\ frame' = [Idle EXCEPT !.before = IF outcome.kind = "ParsedCommand"
                                      THEN frame.bound ELSE {}]
  /\ command' = ParsedCommand
  /\ outcome' = Pending
  /\ embed' = IF outcome.kind = "ParsedCommand"
                  /\ grammar[outcome.command.base.v].g.root = "help"
               THEN help(outcome.command) ELSE NoEmbed
  /\ UNCHANGED <<vocab, guild, param, reply, pins, tasks, config, prefixes,
                 channel_memory, rquote_memory>>

Next ==
  \/ ParseCommand
  \/ ParseToken
  \/ ParseSequence
  \/ LoopBody
  \/ Return
  \/ Commands

Spec == Init /\ [][Next]_vars

(***************************************************************************)
(* The handlers of a command with users or channels: resolve, ids, names   *)
(***************************************************************************)
\* the members and the text channels guilds are made of
Members ==
  {[name |-> "Alba", id |-> 1, bot |-> FALSE],
   [name |-> "albot", id |-> 2, bot |-> TRUE],
   [name |-> "Bob", id |-> 3, bot |-> FALSE]}
TextChannels ==
  {[name |-> "general", id |-> 4], [name |-> "Bots", id |-> 5]}

\* the names given in a command
RawNames ==
  {"al", "B", "bot", "z"}

\* the sequences of at most n elements of S
SeqsUpTo(S, n) ==
  UNION {[1..k -> S] : k \in 0..n}

\* a command was parsed with names for its users or for its channels, in a
\* guild
InitResolve ==
  /\ Started
  /\ rquote_memory = SizedDict(10)
  /\ vocab = ""
  /\ guild \in [members : SeqsUpTo(Members, MaxEntities),
                 text_channels : SeqsUpTo(TextChannels, MaxEntities)]
  /\ \E type \in {"UsersParam", "ChannelsParam"} :
       \E raw \in SeqsUpTo(RawNames, MaxNames) :
         param = DiscordResolvableParam_parse(
                   DiscordResolvableParam(type),
                   List([i \in 1..Len(raw) |-> Item("str", raw[i])])).p

\* users.resolve(msg.guild), channels.resolve(msg.guild)
Resolve ==
  /\ param' = DiscordResolvableParam_resolve(param, guild).p
  /\ reply' = [call |-> "resolve", exc |-> DiscordResolvableParam_resolve(param, guild).exc, v |-> <<>>]
  /\ UNCHANGED <<lexer, command, frame, outcome, embed, vocab, guild, pins, tasks, config, prefixes,
                 channel_memory, rquote_memory>>

\* users.ids, channels.ids
Ids ==
  /\ param' = DiscordResolvableParam_ids(param).p
  /\ reply' = [call |-> "ids", exc |-> "", v |-> DiscordResolvableParam_ids(param).v]
  /\ UNCHANGED <<lexer, command, frame, outcome, embed, vocab, guild, pins, tasks, config, prefixes,
                 channel_memory, rquote_memory>>

\* users.names, channels.names
Names ==
  /\ param' = DiscordResolvableParam_names(param).p
  /\ reply' = [call |-> "names", exc |-> "", v |-> DiscordResolvableParam_names(param).v]
  /\ UNCHANGED <<lexer, command, frame, outcome, embed, vocab, guild, pins, tasks, config, prefixes,
                 channel_memory, rquote_memory>>

\* between a command and its re-run by again (last_cmd.msg.guild is the
\* live guild): members and channels have come and gone
GuildUpdate ==
  /\ guild' \in [members : SeqsUpTo(Members, MaxEntities),
                  text_channels : SeqsUpTo(TextChannels, MaxEntities)]
  /\ guild' # guild
  /\ reply' = [call |-> "", exc |-> "", v |-> <<>>]
  /\ UNCHANGED <<lexer, command, frame, outcome, embed, vocab, param, pins, tasks, config, prefixes,
                 channel_memory, rquote_memory>>

NextResolve ==
  \/ Resolve
  \/ Ids
  \/ Names
  \/ GuildUpdate

SpecResolve == InitResolve /\ [][NextResolve]_vars

(***************************************************************************)
(* The reaction handlers and the pins tables                               *)
(***************************************************************************)
\* the ids of the messages that get pinned, of the pin messages sent
OriginalIds == {11, 12}
PinIds == {21, 22}

\* the bot has started in a guild; the texts of its messages are those of
\* one family
InitBot ==
  /\ Started
  /\ rquote_memory = SizedDict(10)
  /\ vocab = "restlist"
  /\ guild = [members |-> <<>>, text_channels |-> <<>>]
  /\ param = DiscordResolvableParam("UsersParam")

\* admin init guild: db.init_guild(msg.guild)
InitGuild ==
  \E g \in GuildIds :
    /\ pins' = init_guild(pins, g).db
    /\ config' = add_guild(config, g).db
    /\ reply' = [call |-> "init_guild", args |-> <<g>>,
                 exc |-> init_guild(pins, g).exc,
                 v |-> init_guild(pins, g).v]
    /\ UNCHANGED <<lexer, command, frame, outcome, embed, vocab, guild, param, tasks, prefixes,
                   channel_memory, rquote_memory>>

\* Hawkbot.pin_msg: db.pins.pin_message(guild.id, orig_msg.id, pinned_msg.id)
PinMessage ==
  \E g \in GuildIds, original \in OriginalIds, pin \in PinIds :
    /\ Len(pins[g].rows) + 2 <= MaxRows
    /\ pins' = pin_message(pins, g, original, pin).db
    /\ reply' = [call |-> "pin_message", args |-> <<g, original, pin>>,
                 exc |-> pin_message(pins, g, original, pin).exc,
                 v |-> pin_message(pins, g, original, pin).v]
    /\ UNCHANGED <<lexer, command, frame, outcome, embed, vocab, guild, param, tasks, config, prefixes,
                   channel_memory, rquote_memory>>

\* Hawkbot.unpin_msg: db.pins.unpin_message(guild.id, orig_msg.id)
UnpinMessage ==
  \E g \in GuildIds, original \in OriginalIds :
    /\ pins' = unpin_message(pins, g, original).db
    /\ reply' = [call |-> "unpin_message", args |-> <<g, original>>,
                 exc |-> unpin_message(pins, g, original).exc,
                 v |-> unpin_message(pins, g, original).v]
    /\ UNCHANGED <<lexer, command, frame, outcome, embed, vocab, guild, param, tasks, config, prefixes,
                   channel_memory, rquote_memory>>

\* Hawkbot.pin_msg: db.pins.get_pin_msg_id(orig_msg.guild.id, orig_msg.id)
GetPinMsgId ==
  \E g \in GuildIds, original \in OriginalIds :
    /\ pins' = get_pin_msg_id(pins, g, original).db
    /\ reply' = [call |-> "get_pin_msg_id", args |-> <<g, original>>,
                 exc |-> get_pin_msg_id(pins, g, original).exc,
                 v |-> get_pin_msg_id(pins, g, original).v]
    /\ UNCHANGED <<lexer, command, frame, outcome, embed, vocab, guild, param, tasks, config, prefixes,
                   channel_memory, rquote_memory>>

NextPins ==
  \/ InitGuild
  \/ PinMessage
  \/ UnpinMessage
  \/ GetPinMsgId

SpecPins == InitBot /\ [][NextPins]_vars

(***************************************************************************)
(* config prefix: the reads and writes of Hawkbot.prefixes                 *)
(***************************************************************************)
\* the prefixes given to config prefix set
Prefixes == {"?", "$"}

\* which call of the body of a database function finds the server gone:
\* none, or one of the three a wrapped call makes at most
Lost == 0..3

\* Hawkbot.commands and config prefix: self.prefixes[guild.id]
GetItem ==
  \E g \in GuildIds, lost \in Lost :
    /\ prefixes' = PrefixStore_getitem(prefixes, config, g, lost).self
    /\ config' = PrefixStore_getitem(prefixes, config, g, lost).db
    /\ reply' = [call |-> "getitem", args |-> <<g>>,
                 exc |-> PrefixStore_getitem(prefixes, config, g, lost).exc,
                 v |-> PrefixStore_getitem(prefixes, config, g, lost).v]
    /\ UNCHANGED <<lexer, command, frame, outcome, embed, vocab, guild,
                   param, pins, tasks, channel_memory, rquote_memory>>

\* config prefix set, config prefix reset: self.prefixes[guild.id] = prefix
SetItem ==
  \E g \in GuildIds, lost \in Lost :
    \E prefix \in {None} \cup {Some(p) : p \in Prefixes} :
      /\ prefixes' = PrefixStore_setitem(prefixes, config, g, prefix, lost).self
      /\ config' = PrefixStore_setitem(prefixes, config, g, prefix, lost).db
      /\ reply' = [call |-> "setitem", args |-> <<g, prefix>>,
                   exc |-> PrefixStore_setitem(prefixes, config, g, prefix, lost).exc,
                   v |-> None]
      /\ UNCHANGED <<lexer, command, frame, outcome, embed, vocab, guild,
                     param, pins, tasks, channel_memory, rquote_memory>>

\* the bot is started again: Hawkbot.__init__ makes a new PrefixStore, the
\* database is as it was
NewStore ==
  /\ prefixes' = PrefixStore(default_prefix)
  /\ reply' = [call |-> "", exc |-> "", v |-> <<>>]
  /\ UNCHANGED <<lexer, command, frame, outcome, embed, vocab, guild, param,
                 pins, tasks, config, channel_memory, rquote_memory>>

NextPrefix ==
  \/ InitGuild
  \/ GetItem
  \/ SetItem
  \/ NewStore

SpecPrefix == InitBot /\ [][NextPrefix]_vars

(***************************************************************************)
(* The repeatable commands, again and the repeat reaction                  *)
(***************************************************************************)
\* the messages with a command, the messages the bot sent, the handlers
\* wrapped by repeatable and the commands they are called with
Messages == [id : {31, 32}, channel : ChannelIds]
SentMessages == [id : {51, 52}, channel : ChannelIds]
Repeatables == {"generate_message", "random_quote"}
ParsedCommands == {"generate", "rquote guess"}

\* what a handler may return: nothing sent, True, a message it sent
Results ==
  {Result(FALSE, 0), Result(TRUE, 0)} \cup {Result(TRUE, m.id) : m \in SentMessages}

\* Hawkbot.commands: a handler wrapped by repeatable is called
Repeatable ==
  \E msg \in Messages, cmd \in ParsedCommands, f \in Repeatables :
    \E result \in Results :
      /\ channel_memory' = repeatable(channel_memory, f, msg, cmd, result)
      /\ reply' = [call |-> f, args |-> <<msg, cmd>>, exc |-> "", v |-> result,
                   invoked |-> <<>>]
      /\ UNCHANGED <<lexer, command, frame, outcome, embed, vocab, guild,
                     param, pins, tasks, config, prefixes, rquote_memory>>

\* Hawkbot.commands: root == 'again'
Again ==
  \E msg \in Messages, result \in Results :
    /\ channel_memory' = again(channel_memory, msg, result).memory
    /\ reply' = [call |-> "again", args |-> <<msg>>,
                 exc |-> again(channel_memory, msg, result).exc,
                 v |-> again(channel_memory, msg, result).v,
                 invoked |-> again(channel_memory, msg, result).invoked]
    /\ UNCHANGED <<lexer, command, frame, outcome, embed, vocab, guild,
                   param, pins, tasks, config, prefixes, rquote_memory>>

\* on_reaction_add: repeat_command_reaction(reaction, user)
RepeatReaction ==
  \E repeat \in BOOLEAN, message \in SentMessages, result \in Results :
    /\ channel_memory' =
         repeat_command_reaction(channel_memory, repeat, message, result).memory
    /\ reply' = [call |-> "repeat_command_reaction", args |-> <<message>>,
                 exc |-> repeat_command_reaction(channel_memory, repeat, message, result).exc,
                 v |-> repeat_command_reaction(channel_memory, repeat, message, result).v,
                 invoked |-> repeat_command_reaction(channel_memory, repeat, message, result).invoked]
    /\ UNCHANGED <<lexer, command, frame, outcome, embed, vocab, guild,
                   param, pins, tasks, config, prefixes, rquote_memory>>

NextAgain ==
  \/ Repeatable
  \/ Again
  \/ RepeatReaction

SpecAgain == InitBot /\ [][NextAgain]_vars

(***************************************************************************)
(* The assignments to a SizedDict                                          *)
(***************************************************************************)
MaxSize == 3
MaxKeys == 3

\* a SizedDict of some size has been made
InitSized ==
  /\ Started
  /\ vocab = ""
  /\ guild = [members |-> <<>>, text_channels |-> <<>>]
  /\ param = DiscordResolvableParam("UsersParam")
  /\ rquote_memory \in {SizedDict(size) : size \in 1..MaxSize}

\* random_quote: rquote_memory[sent_msg.id] = msg, for any key and value
Assign ==
  \E key \in 1..MaxKeys, value \in {31, 32} :
    /\ rquote_memory' = SizedDict_setitem(rquote_memory, key, value).self
    /\ reply' = [call |-> "SizedDict_setitem", args |-> <<key, value>>,
                 exc |-> SizedDict_setitem(rquote_memory, key, value).exc,
                 v |-> <<>>]
    /\ UNCHANGED <<lexer, command, frame, outcome, embed, vocab, guild,
                   param, pins, tasks, config, prefixes, channel_memory>>

NextSized == Assign

SpecSized == InitSized /\ [][NextSized]_vars

(***************************************************************************)
(* The event loop: one on_message coroutine for every message              *)
(***************************************************************************)
\* a faulty variant of Runnable: the loop would give the thread to a
\* scheduled coroutine while another is between two suspension points
Runnable_preemptive(ts, m) ==
  ts[m] = "ready"

\* the event loop gives the thread to the coroutine of message m: it is
\* scheduled, and no coroutine is between two of its suspension points
Runnable(ts, m) ==
  ts[m] = "ready" /\ \A n \in DOMAIN ts : ts[n] # "running"

\* a message arrives and the loop schedules on_message for it
Receive ==
  \E m \in DOMAIN tasks :
    /\ tasks[m] = "new"
    /\ \A n \in DOMAIN tasks : tasks[n] # "running"
    /\ tasks' = [tasks EXCEPT ![m] = "ready"]
    /\ UNCHANGED <<lexer, command, frame, outcome, embed, vocab, guild, param,
                   reply, pins, config, prefixes,
                   channel_memory, rquote_memory>>

\* on_message runs up to cmd = self.parser(args) of Hawkbot.commands and
\* enters parse_command, whatever the parser is doing
Start ==
  \E m \in DOMAIN tasks :
    /\ Runnable(tasks, m)
    /\ tasks' = [tasks EXCEPT ![m] = "running"]
    /\ \E text \in Inputs(vocab) :
         /\ lexer' = parse_command(State, text).lexer
         /\ command' = parse_command(State, text).command
         /\ frame' = parse_command(State, text).frame
         /\ outcome' = parse_command(State, text).outcome
    /\ embed' = NoEmbed
    /\ UNCHANGED <<vocab, guild, param, reply, pins, config, prefixes,
                   channel_memory, rquote_memory>>

\* parse_command has ended: Hawkbot.commands and on_message go on to their
\* next await (the handler of the command, asyncio.sleep, send_error), or
\* an exception that on_message does not catch ends the coroutine
Handle ==
  \E m \in DOMAIN tasks :
    /\ tasks[m] = "running"
    /\ frame.pc = "returned"
    /\ tasks' = [tasks EXCEPT ![m] =
                   IF outcome.kind = "raise" /\ outcome.exc # "UserFeedbackError"
                   THEN "done" ELSE "awaiting"]
    /\ lexer' = [lexer EXCEPT !.instream = ""]
    /\ frame' = [Idle EXCEPT !.before = IF outcome.kind = "ParsedCommand"
                                        THEN frame.bound ELSE {}]
    /\ command' = ParsedCommand
    /\ outcome' = Pending
    /\ embed' = NoEmbed
    /\ UNCHANGED <<vocab, guild, param, reply, pins, config, prefixes,
                   channel_memory, rquote_memory>>

\* what a coroutine awaited is there; it runs to its end
Resume ==
  \E m \in DOMAIN tasks :
    /\ tasks[m] = "awaiting"
    /\ \A n \in DOMAIN tasks : tasks[n] # "running"
    /\ tasks' = [tasks EXCEPT ![m] = "done"]
    /\ UNCHANGED <<lexer, command, frame, outcome, embed, vocab, guild, param,
                   reply, pins, config, prefixes,
                   channel_memory, rquote_memory>>

NextLoop ==
  \/ Receive
  \/ Start
  \/ ParseToken
  \/ ParseSequence
  \/ LoopBody
  \/ Return
  \/ Handle
  \/ Resume

SpecLoop == InitBot /\ [][NextLoop]_vars

(***************************************************************************)
(* Properties                                                              *)
(***************************************************************************)
Parsing == frame.pc \notin {"idle", "returned"}
Ended == frame.pc = "returned"
IsCommand == Ended /\ outcome.kind = "ParsedCommand"

\* the grammar of the base bound so far
BaseGrammar == grammar[command.base.v].g

\* s without the whitespace at its start, at its end
LStrip(s) == Drop(s, Span(s, whitespace))
RStrip(s) ==
  LET keep == {i \in 1..Len(s) : SubSeq(s, i, i) \notin whitespace}
  IN IF keep = {} THEN ""
     ELSE SubSeq(s, 1, CHOOSE i \in keep : \A j \in keep : j <= i)

\* C1: every parse_command that has begun comes to its end, whatever the
\* text: run on from any point it has reached, it returns or raises
C1_Terminates == Parsing => Run(State).frame.pc = "returned"

\* C2: a parse on a Parser that has parsed before ends as the parse of the
\* same text on a new Parser ends
C2_SameAsFresh == Ended => outcome = FreshOutcome(frame.text)

\* C3: ChangeParsingMode never leaves parse_command
C3_SignalConsumed ==
  Ended /\ outcome.kind = "raise" => outcome.exc # "ChangeParsingMode"

\* the first token of text, read the way parse_command reads it
FirstToken(text) ==
  get_token([set_parse_mode(Parser, "lexical") EXCEPT !.instream = text])

\* text is empty, or its first token names no command and no alias
FirstUnresolved(text) ==
  LET t == FirstToken(text)
  IN t.err = "" /\ t.tok # "[" /\ ~find_base(t.tok, FALSE).has

\* C4: a text whose first token resolves to no command gives None, and so
\* does the empty text
C4_UnresolvedGivesNone ==
  Ended /\ FirstUnresolved(frame.text) => outcome.kind = "None"

\* prev_arg, a bare token, is handed to the binder of a LEXICAL base, is no
\* subcommand switch and matches no shorthand
UnknownBare ==
  /\ frame.pc = "body" /\ command.base.has /\ command.mode = "lexical"
  /\ frame.arg.k # "list" /\ frame.prev_arg.k = "str"
  /\ ~(~command.args_encountered /\ frame.prev_arg.s \in BaseGrammar.subcommands)
  /\ ~get_param_name_by_arg(BaseGrammar, frame.prev_arg).has

\* prev_arg is handed to the binder of a LEXICAL base as the name of a
\* bracket-list, and is no parameter name and no alias of the base
UnknownName ==
  /\ frame.pc = "body" /\ command.base.has /\ command.mode = "lexical"
  /\ frame.arg.k = "list" /\ frame.prev_arg.k = "str"
  /\ ~get_param_name_by_name(BaseGrammar, frame.prev_arg).has

\* C5: a bare token that matches no shorthand, and a bracket-list whose name
\* is no parameter of the base, end the parse with None
C5_UnknownGivesNone ==
  [][UnknownBare \/ UnknownName
       => frame'.pc = "returned" /\ outcome'.kind = "None"]_vars

\* C6: a token that waits to be bound as an argument of a POSITIONAL command
\* was read under the POSITIONAL wordchars
C6_PositionalProfile ==
  frame.pc = "loop" /\ command.mode = "positional" /\ frame.prev_arg.k = "str"
    => frame.arg_profile = "positional"

\* the text that follows the command token help
RawRest(text) == RStrip(LStrip(Drop(LStrip(text), Len("help"))))

\* C7: the value of help's parameter is the text that follows the command
\* token, character for character (whitespace at its end set aside, and no
\* text counted as None)
C7_RestVerbatim ==
  IsCommand /\ outcome.command.base = Some("help") =>
    LET value == outcome.command.args["command"].value
    IN RStrip(IF value.has THEN value.v ELSE "") = RawRest(frame.text)

\* prev_arg, a bare token, is handed to the binder after an argument was
\* bound, and is the name of a subcommand of the base
LateSubcommand ==
  /\ frame.pc = "body" /\ command.base.has /\ command.args_encountered
  /\ frame.arg.k # "list" /\ frame.prev_arg.k = "str"
  /\ frame.prev_arg.s \in BaseGrammar.subcommands

\* C8: within one parse the base never changes once an argument is bound; a
\* later bare token that names a subcommand is bound as an argument or, if
\* it matches no parameter, ends the parse with None; and the base changes
\* only while no parameter is bound
C8_BaseFixedOnceBound ==
  [][/\ Parsing /\ command.args_encountered => command'.base = command.base
     /\ LateSubcommand =>
          \/ get_param_name_by_arg(BaseGrammar, frame.prev_arg).has
          \/ frame'.pc = "returned" /\ outcome'.kind = "None"
     /\ Parsing /\ command'.base # command.base =>
          frame.bound = {} /\ ~command.args_encountered]_vars

\* rq x3 guess: count is bound, then guess is refused
C8_Witness ==
  /\ Ended /\ outcome.kind = "None"
  /\ command.base = Some("rquote") /\ command.args_encountered
  /\ "count" \in frame.bound /\ frame.prev_arg = Str("guess")

\* p holds the default that entry e of the grammar declares for it
AtDefault(e, p) ==
  CASE e.type = "StringParam" -> p.value = None
    [] e.type = "ChoiceParam" -> p.value = e.kw.default
    [] e.type = "DiscordMessageURLParam" ->
         p.url = None /\ p.guild_id = NoneInt /\ p.channel_id = NoneInt
           /\ p.message_id = NoneInt
    [] e.type \in {"UsersParam", "ChannelsParam"} -> p.raw_names = <<>>
    [] e.type = "LimitParam" -> p.min = NoneInt /\ p.max = NoneInt
    [] e.type = "CountParam" -> p.count = e.kw.min
    [] e.type = "QuotedStringParam" ->
         p.value = None /\ p.quote_type = None /\ p.is_regex = FALSE
    [] e.type = "FlagsParam" -> p.flags = {}

\* C9: a returned command has one parameter for each name its base
\* declares, and each parameter its own text did not bind holds the declared
\* default, whatever the parses before it bound
C9_UnboundAtDefault ==
  IsCommand =>
    LET params == grammar[outcome.command.base.v].g.parameters
        declared == {i \in 1..Len(params) : ~params[i].is_alias}
        args == outcome.command.args
    IN /\ DOMAIN args = {params[i].key : i \in declared}
       /\ \A i \in declared :
            params[i].key \notin frame.bound => AtDefault(params[i], args[params[i].key])

\* rq x3 and then rq: the second command has count 1
C9_Witness ==
  /\ IsCommand /\ outcome.command.base = Some("rquote")
  /\ "count" \in frame.before /\ frame.bound = {}
  /\ outcome.command.args["count"].count = Some(1)

\* the canonical path that the tokens name, each token after the first a
\* subcommand of the path before it; None if they name no such path
RECURSIVE PathOf(_)
PathOf(tokens) ==
  IF tokens = <<>> THEN None
  ELSE IF Len(tokens) = 1 THEN resolve_alias(tokens[1])
  ELSE LET parent == PathOf(SubSeq(tokens, 1, Len(tokens) - 1))
           last == tokens[Len(tokens)]
       IN IF parent.has /\ last \in grammar[parent.v].g.subcommands
          THEN Some(parent.v \o " " \o last) ELSE None

\* cmd is a command whose base is the one registered under path
HasBase(out, path) ==
  /\ out.kind = "ParsedCommand"
  /\ out.command.base = Some(path)
  /\ grammar[path].g.name = path
  /\ grammar[path].g.path = split(path)
  /\ grammar[path].g.root = split(path)[1]

\* the number of characters at the start of s before the first blank one
WordLen(s) ==
  LET stops == {i \in 1..Len(s) : SubSeq(s, i, i) \in whitespace}
  IN IF stops = {} THEN Len(s)
     ELSE (CHOOSE i \in stops : \A j \in stops : i <= j) - 1

RECURSIVE WordsOf(_)

\* the words of a text that starts with a word of n characters
WordsAfter(text, n) ==
  IF text = "" THEN <<>>
  ELSE <<SubSeq(text, 1, n)>> \o WordsOf(Drop(text, n))

\* the words of a typed text, as split gives them, taken a word at a time
WordsOf(text) ==
  WordsAfter(Drop(text, Span(text, whitespace)),
             WordLen(Drop(text, Span(text, whitespace))))

\* C10: a text that is a command followed by subcommands only gives, on a
\* new Parser, a command whose base has the canonical path as name, its
\* segments as path and its first segment as root; and on any Parser a
\* command returned for such a text has that base
C10_CanonicalPath ==
  Ended /\ PathOf(WordsOf(frame.text)).has =>
    LET path == PathOf(WordsOf(frame.text)).v
    IN /\ HasBase(FreshOutcome(frame.text), path)
       /\ outcome.kind = "ParsedCommand" => HasBase(outcome, path)

\* config prefix set
C10_Witness ==
  /\ IsCommand /\ Len(WordsOf(frame.text)) = 3
  /\ PathOf(WordsOf(frame.text)) = Some("config prefix set")
  /\ outcome.command.base = Some("config prefix set")

\* the first token of text is an alias of the registry
StartsWithAlias(text) ==
  LET t == FirstToken(text)
  IN t.err = "" /\ t.tok \in DOMAIN grammar /\ grammar[t.tok].alias_of # ""

\* text with the alias at its start replaced by the path it stands for
Unaliased(text) ==
  LET lead == Span(text, whitespace)
      alias == FirstToken(text).tok
  IN SubSeq(text, 1, lead) \o grammar[alias].alias_of
       \o Drop(text, lead + Len(alias))

\* C11: a text that starts with an alias and the same text with the alias
\* replaced by its command path have the same outcome on a new Parser, and
\* the base of a returned command is never registered as an alias
C11_AliasSameAsPath ==
  Ended /\ StartsWithAlias(frame.text) =>
    LET a == FreshOutcome(frame.text)
        p == FreshOutcome(Unaliased(frame.text))
    IN /\ a = p
       /\ a.kind = "ParsedCommand" => grammar[a.command.base.v].alias_of = ""

\* the command that path names when each prefix of it, one blank-separated
\* segment longer than the last, is looked up in the registry with one alias
\* step; None as soon as a prefix is not registered
RECURSIVE Registered(_)
Registered(segments) ==
  IF Len(segments) = 1 THEN resolve_alias(segments[1])
  ELSE LET parent == Registered(SubSeq(segments, 1, Len(segments) - 1))
       IN IF parent.has
          THEN resolve_alias(parent.v \o " " \o segments[Len(segments)])
          ELSE None

\* found is a CommandGrammar of the registry or None, and it is a command
\* only if name is registered, as that command or as an alias of it
ExactOrAlias(name, found) ==
  IF found.has
  THEN /\ found.v \in DOMAIN grammar /\ grammar[found.v].alias_of = ""
       /\ name \in DOMAIN grammar
       /\ found.v = name \/ grammar[name].alias_of = found.v
  ELSE name \notin DOMAIN grammar

\* the help command just parsed names a command to describe
HelpAsked ==
  /\ IsCommand /\ outcome.command.base = Some("help")
  /\ outcome.command.args["command"].value.has
  /\ outcome.command.args["command"].value.v # ""

\* C12: find_base(path, resolve_aliases=True), as Hawkbot.help calls it,
\* finds the command registered under the path resolved prefix by prefix
\* with one alias step each, and nothing when a prefix is not registered;
\* find_base(name), as the binder calls it on a token and on a joined
\* subcommand path, finds a command only for a registered name or alias, and
\* what it finds is never an alias entry
C12_FindBase ==
  [][/\ HelpAsked =>
          LET found == Registered(split_blank(outcome.command.args["command"].value.v))
          IN /\ found.has => grammar[found.v].alias_of = ""
             /\ embed'.title = IF found.has
                               THEN "**" \o grammar[found.v].g.name \o "**"
                               ELSE "This command doesn't exist"
     /\ frame.pc = "body" /\ frame.prev_arg.k = "str" =>
          /\ ExactOrAlias(frame.prev_arg.s, find_base(frame.prev_arg.s, FALSE))
          /\ command.base.has =>
               LET path == command.base.v \o " " \o frame.prev_arg.s
               IN ExactOrAlias(path, find_base(path, FALSE))]_vars

\* help rq guess was answered with the help of rquote guess
C12_Witness ==
  frame.pc = "idle" /\ embed.title = "**rquote guess**"

\* the number of words at the start of words that name a command path
PathLen(words) ==
  LET named == {k \in 1..Len(words) : PathOf(SubSeq(words, 1, k)).has}
  IN IF named = {} THEN 0 ELSE CHOOSE k \in named : \A j \in named : j <= k

\* the words put back into a text, a blank after each
RECURSIVE Unsplit(_)
Unsplit(words) ==
  IF words = <<>> THEN "" ELSE Head(words) \o " " \o Unsplit(Tail(words))

\* the texts that give the words after the first n in every other order
Reordered(words, n) ==
  LET m == Len(words) - n
  IN {Unsplit(SubSeq(words, 1, n) \o [i \in 1..m |-> words[n + f[i]]]) :
        f \in {g \in [1..m -> 1..m] : \A i, j \in 1..m : g[i] = g[j] => i = j}}

\* the text parsed is a command path followed by two or more arguments, each
\* bound to a parameter of its own
DistinctArguments ==
  LET words == WordsOf(frame.text)
      n == PathLen(words)
  IN /\ IsCommand /\ outcome.command.mode = "lexical"
     /\ n > 0 /\ Len(words) - n >= 2
     /\ Cardinality(frame.bound) = Len(words) - n

\* C13: a LEXICAL command returned for a text whose arguments each bind a
\* parameter of their own is the command a new Parser returns for the same
\* arguments in any other order
C13_OrderIndependent ==
  DistinctArguments =>
    \A text \in Reordered(WordsOf(frame.text), PathLen(WordsOf(frame.text))) :
      LET other == FreshOutcome(text)
      IN other.kind = "ParsedCommand" /\ other.command = outcome.command

\* rq with count, limit and users given in one parse
C13_Witness ==
  /\ DistinctArguments /\ frame.bound = {"count", "limit", "users"}
  /\ outcome.command.args["count"].count = Some(3)
  /\ outcome.command.args["limit"].max = Some(2)
  /\ outcome.command.args["users"].raw_names = <<Item("str", "h")>>

\* C14: in a returned command whose text gave a count, as xN or as
\* count[N], the count lies between the min and the max its base declares
C14_CountInRange ==
  IsCommand /\ "count" \in frame.bound =>
    LET params == grammar[outcome.command.base.v].g.parameters
        kw == params[Lookup(params, "count")].kw
        count == outcome.command.args["count"].count
    IN count.has /\ kw.min.v <= count.v /\ count.v <= kw.max.v

\* prev_arg, a bare token, is handed to the binder of a POSITIONAL base
PositionalToken ==
  /\ frame.pc = "body" /\ command.base.has /\ command.mode = "positional"
  /\ frame.arg.k # "list" /\ frame.prev_arg.k = "str"

\* C15: a bare token handed to the binder of a POSITIONAL command after k
\* tokens is parsed by the k-th declared parameter (k from 0) and by no
\* other, and the position becomes k + 1; handed over when every declared
\* parameter has had its token, it ends the parse with None
C15_BoundByPosition ==
  [][PositionalToken =>
       LET order == BaseGrammar.positional_order
           k == command.current_pos
       IN /\ k = Cardinality(frame.bound)
          /\ IF k < Len(order) THEN
               LET r == parse(command.args[order[k + 1]], frame.prev_arg)
               IN /\ command'.current_pos = k + 1
                  /\ command'.base = command.base
                  /\ frame'.bound = frame.bound \cup {order[k + 1]}
                  /\ command'.args = [command.args EXCEPT ![order[k + 1]] = r.p]
                  /\ ~r.ok => frame'.pc = "returned" /\ outcome'.kind = "raise"
             ELSE frame'.pc = "returned" /\ outcome'.kind = "None"]_vars

\* quote with two message links: the second went to url2
C15_Witness ==
  /\ IsCommand /\ outcome.command.base = Some("quote")
  /\ outcome.command.current_pos = 2 /\ frame.bound = {"url1", "url2"}
  /\ outcome.command.args["url2"].message_id = Some(3)

\* the letters that s holds
Letters(s) ==
  {SubSeq(s, i, i) : i \in 1..Len(s)} \cap ascii_letters

\* the letters of the strings of a list
LettersOf(items) ==
  UNION {Letters(items[i].s) : i \in {j \in 1..Len(items) : items[j].k = "str"}}

\* prev_arg is handed to the binder of a LEXICAL base as flags: a bare
\* token that the flags parameter takes as its shorthand, or the name flags
\* before a bracket-list of strings
FlagsGiven ==
  /\ frame.pc = "body" /\ command.base.has /\ command.mode = "lexical"
  /\ frame.prev_arg.k = "str" /\ "flags" \in DOMAIN command.args
  /\ IF frame.arg.k = "list"
     THEN /\ frame.prev_arg.s = "flags" /\ frame.arg.l # <<>>
          /\ \A i \in 1..Len(frame.arg.l) : frame.arg.l[i].k = "str"
     ELSE /\ get_param_name_by_arg(BaseGrammar, frame.prev_arg) = Some("flags")
          /\ ~(~command.args_encountered
                 /\ frame.prev_arg.s \in BaseGrammar.subcommands)

\* the letters given as flags in that step
GivenLetters ==
  IF frame.arg.k = "list" THEN LettersOf(frame.arg.l)
  ELSE Letters(frame.prev_arg.s)

\* C16: flags with a letter outside the allowed set end the parse by
\* raising UserFeedbackError and leave the stored flags as they were; flags
\* inside the allowed set are stored
C16_FlagsValidated ==
  [][FlagsGiven =>
       IF GivenLetters \subseteq command.args["flags"].allowed_flags
       THEN command'.args["flags"].flags = GivenLetters
       ELSE /\ frame'.pc = "returned" /\ outcome' = Raised("UserFeedbackError")
            /\ command'.args["flags"].flags = command.args["flags"].flags]_vars

\* C17: when flags are given to mstats or to mstats plot the parse goes on,
\* with every letter given stored in flags.flags
C17_StatsFlagsStored ==
  [][FlagsGiven /\ command.base.v \in {"mstats", "mstats plot"} =>
       /\ frame'.pc # "returned"
       /\ command'.args["flags"].flags = GivenLetters]_vars

\* C18: a returned generate command has the attribute seed, a quoted-string
\* parameter; it holds no value when the text gave no quoted argument, and
\* the quoted argument of the text when it gave one
C18_SeedExposed ==
  IsCommand /\ outcome.command.base = Some("generate") =>
    LET seed == getattr(outcome.command, "seed")
    IN /\ seed.ok /\ seed.v.type = "QuotedStringParam"
       /\ IF frame.bound \cap {"seed", "blueprint"} = {}
          THEN seed.v.value = None /\ seed.v.quote_type = None /\ ~seed.v.is_regex
          ELSE seed.v.value.has /\ seed.v.quote_type.has

\* the string s is no message link, is no quoted string
NotURL(s) == ~URLMatch(s).ok
NotQuoted(s) == ~QuotedMatch(s).ok

\* prev_arg is handed to a parameter that rejects it for its form: a token
\* that is no message link to a link parameter of a POSITIONAL base, a token
\* that is not quoted to its quoted-string parameter, or a list whose first
\* item is a string that is not quoted to a quoted-string parameter named
\* before it
StructuralReject ==
  \/ /\ PositionalToken
     /\ command.current_pos < Len(BaseGrammar.positional_order)
     /\ LET p == command.args[BaseGrammar.positional_order[command.current_pos + 1]]
        IN \/ p.type = "DiscordMessageURLParam" /\ NotURL(frame.prev_arg.s)
           \/ p.type = "QuotedStringParam" /\ NotQuoted(frame.prev_arg.s)
  \/ /\ frame.pc = "body" /\ command.base.has /\ command.mode = "lexical"
     /\ frame.prev_arg.k = "str" /\ frame.arg.k = "list" /\ frame.arg.l # <<>>
     /\ LET name == get_param_name_by_name(BaseGrammar, frame.prev_arg)
        IN /\ name.has
           /\ command.args[name.v].type = "QuotedStringParam"
           /\ First(frame.arg).k = "str" /\ NotQuoted(First(frame.arg).s)

\* C19: a token or list handed to a parameter that rejects its form ends
\* parse_command by raising the ValueError of that parameter: the caller
\* gets neither None nor a command
C19_ParseErrorRaised ==
  [][StructuralReject =>
       frame'.pc = "returned" /\ outcome' = Raised("ValueError")]_vars

\* quote x, config prefix set x and gen blueprint[x] ended by raising
C19_Witness ==
  /\ Ended /\ outcome = Raised("ValueError")
  /\ \/ command.base = Some("config prefix set") /\ frame.prev_arg = Str("x")
     \/ command.base = Some("generate") /\ frame.prev_arg = Str("blueprint")

\* the entries of params that are aliases
AliasEntries(params) ==
  {i \in 1..Len(params) : params[i].is_alias}

\* word is alias[...] for an alias among params
IsAliasList(params, word) ==
  LET n == SpanUntil(word, "[")
  IN n < Len(word) /\ \E i \in AliasEntries(params) : params[i].key = SubSeq(word, 1, n)

\* the word alias[...] with the name the alias stands for in place of it
RenamedWord(params, word) ==
  IF IsAliasList(params, word)
  THEN LET n == SpanUntil(word, "[")
       IN params[Lookup(params, SubSeq(word, 1, n))].target \o Drop(word, n)
  ELSE word

\* the parameters of the command path that text starts with
PathParams(text) ==
  LET words == WordsOf(text)
  IN grammar[PathOf(SubSeq(words, 1, PathLen(words))).v].g.parameters

\* text is the path of a LEXICAL command followed by arguments, one or more
\* of them a list named by an alias
HasAliasList(text) ==
  LET words == WordsOf(text)
      n == PathLen(words)
  IN /\ n > 0
     /\ grammar[PathOf(SubSeq(words, 1, n)).v].g.mode = "lexical"
     /\ \E i \in (n + 1)..Len(words) : IsAliasList(PathParams(text), words[i])

\* text with the name in place of each alias that names a list
Renamed(text) ==
  LET words == WordsOf(text)
  IN Unsplit([i \in 1..Len(words) |->
                IF i > PathLen(words) THEN RenamedWord(PathParams(text), words[i])
                ELSE words[i]])

\* C20: a text with alias[data] and the same text with name[data] have the
\* same outcome on a new Parser; a command returned for it has the
\* parameter the alias stands for bound; and each alias of the command is
\* one key, standing for one declared parameter
C20_AliasListSameAsName ==
  Ended /\ HasAliasList(frame.text) =>
    LET params == PathParams(frame.text)
        words == WordsOf(frame.text)
    IN /\ FreshOutcome(Unsplit(words)) = FreshOutcome(Renamed(frame.text))
       /\ IsCommand =>
            \A i \in 1..Len(words) :
              IsAliasList(params, words[i]) =>
                \E j \in AliasEntries(params) :
                  /\ StartsWith(words[i], params[j].key \o "[")
                  /\ params[j].target \in frame.bound
       /\ \A i \in AliasEntries(params) :
            /\ \A j \in 1..Len(params) : params[j].key = params[i].key => j = i
            /\ \E j \in 1..Len(params) :
                 ~params[j].is_alias /\ params[j].key = params[i].target

\* rq u[h]: users holds h
C20_Witness ==
  /\ IsCommand /\ HasAliasList(frame.text) /\ frame.bound = {"users"}
  /\ outcome.command.args["users"].raw_names = <<Item("str", "h")>>
  /\ Renamed(frame.text) = "rq users[h] "

\* prev_arg is handed to a choice parameter: as the next token of a
\* POSITIONAL base whose next parameter is a choice, or as the name of a
\* choice parameter of a LEXICAL base before a list that starts with a string
ChoiceGiven ==
  /\ frame.pc = "body" /\ command.base.has /\ frame.prev_arg.k = "str"
  /\ IF frame.arg.k = "list"
     THEN /\ command.mode = "lexical" /\ frame.arg.l # <<>>
          /\ First(frame.arg).k = "str"
          /\ LET name == get_param_name_by_name(BaseGrammar, frame.prev_arg)
             IN name.has /\ command.args[name.v].type = "ChoiceParam"
     ELSE /\ command.mode = "positional"
          /\ LET name == get_param_name_by_pos(BaseGrammar, command.current_pos)
             IN name.has /\ command.args[name.v].type = "ChoiceParam"

\* the parameter that takes the value in that step, and the value
ChoiceName ==
  IF frame.arg.k = "list" THEN get_param_name_by_name(BaseGrammar, frame.prev_arg).v
  ELSE get_param_name_by_pos(BaseGrammar, command.current_pos).v
ChoiceValue ==
  IF frame.arg.k = "list" THEN First(frame.arg).s ELSE frame.prev_arg.s

\* C21: a string handed to a choice parameter is stored as its value if it
\* is one of the choices, and otherwise leaves the value as it was; either
\* way nothing else of the command changes but the record of the binding,
\* nothing is raised and the parse goes on, to return the command when the
\* value was the last token
C21_ChoiceKeptOrReplaced ==
  [][ChoiceGiven =>
       LET p == command.args[ChoiceName]
       IN /\ frame'.pc \in {"loop", "return"}
          /\ outcome' = Pending
          /\ command'.base = command.base
          /\ command'.args =
               [command.args EXCEPT ![ChoiceName].value =
                  IF ChoiceValue \in p.choices THEN Some(ChoiceValue) ELSE p.value]
          /\ frame.arg.k = "none" =>
               frame'.pc = "return" /\ Returned(command').kind = "ParsedCommand"]_vars

\* gen a[markov] a[x]: markov is kept; config pins_channel x: action is None
C21_Witness ==
  /\ IsCommand
  /\ \/ /\ frame.text = "gen a[markov] a[x] "
        /\ outcome.command.args["algorithm"].value = Some("markov")
     \/ /\ frame.text = "config pins_channel x "
        /\ outcome.command.args["action"].value = None
        /\ frame.bound = {"action"}

\* entity fits the raw name when case is set aside on both sides
FitsRaw(type, raw, entity) ==
  /\ In(lower(raw.s), lower(entity.name))
  /\ type = "UsersParam" => ~entity.bot

\* the entities of the guild that param is resolved among
Directory ==
  IF param.type = "UsersParam" THEN guild.members ELSE guild.text_channels

\* the places in the directory of the entities that fit the i-th raw name
Fitting(i) ==
  {k \in 1..Len(Directory) : FitsRaw(param.type, param.raw_names[i], Directory[k])}

\* C22: resolve gives, for each raw name in order, the first entity of the
\* directory whose name holds it with case set aside on both sides (bots
\* left out for users), and raises UserFeedbackError if some raw name fits
\* no entity; names read before any resolve gives the raw names
C22_ResolvedByName ==
  /\ reply.call = "resolve" =>
       IF \A i \in 1..Len(param.raw_names) : Fitting(i) # {}
       THEN /\ reply.exc = ""
            /\ Len(param.resolved) = Len(param.raw_names)
            /\ \A i \in 1..Len(param.raw_names) :
                 param.resolved[i] =
                   Directory[CHOOSE k \in Fitting(i) : \A j \in Fitting(i) : k <= j]
       ELSE reply.exc = "UserFeedbackError"
  /\ reply.call = "names" /\ param.resolved = <<>> => reply.v = param.raw_names

\* every key of a parameter dict of the registry, names and aliases, and
\* a name no command declares
AttributeNames ==
  UNION {{grammar[k].g.parameters[i].key : i \in 1..Len(grammar[k].g.parameters)} :
           k \in DOMAIN grammar} \cup {"seed"}

\* the names the grammar under path declares, aliases left out
DeclaredNames(path) ==
  LET params == grammar[path].g.parameters
  IN {params[i].key : i \in {j \in 1..Len(params) : ~params[j].is_alias}}

\* C23: a returned command has a base, and reading an attribute of it gives
\* a parameter of the declared type when the name is declared by that base,
\* given in the text or not, and raises AttributeError for every other
\* name: an alias, a parameter of another command, an undeclared name
C23_DeclaredNamesExposed ==
  IsCommand =>
    /\ outcome.command.base.has
    /\ outcome.command.base.v \in DOMAIN grammar
    /\ \A name \in AttributeNames :
         LET read == getattr(outcome.command, name)
             params == grammar[outcome.command.base.v].g.parameters
         IN IF name \in DeclaredNames(outcome.command.base.v)
            THEN read.ok /\ read.v.type = params[Lookup(params, name)].type
            ELSE ~read.ok /\ read.exc = "AttributeError"

\* rq guess x3: channels and limit are there unbound, users of rquote and
\* the alias c are not
C23_Witness ==
  /\ IsCommand /\ outcome.command.base = Some("rquote guess")
  /\ frame.bound = {"count"}
  /\ getattr(outcome.command, "channels").ok
  /\ getattr(outcome.command, "limit").ok
  /\ ~getattr(outcome.command, "users").ok
  /\ ~getattr(outcome.command, "c").ok

\* the decimal numeral of n
RECURSIVE Decimal(_)
Decimal(n) ==
  IF n < 10 THEN SubSeq("0123456789", n + 1, n + 1)
  ELSE Decimal(n \div 10) \o SubSeq("0123456789", (n % 10) + 1, (n % 10) + 1)

\* the shorthand forms of a limit with the min and the max each stands for
LimitForms ==
  {[text |-> Decimal(a) \o "->" \o Decimal(b), min |-> Some(a), max |-> Some(b)] :
     a \in 0..MaxLimit, b \in 0..MaxLimit}
  \cup {[text |-> "->" \o Decimal(b), min |-> NoneInt, max |-> Some(b)] :
          b \in 0..MaxLimit}
  \cup {[text |-> Decimal(a) \o "->", min |-> Some(a), max |-> NoneInt] :
          a \in 0..MaxLimit}

\* the list forms: limit[A B] stands for what A->B stands for
LimitLists ==
  {[list |-> <<Item("str", Decimal(a)), Item("str", Decimal(b))>>,
    min |-> Some(a), max |-> Some(b)] : a \in 0..MaxLimit, b \in 0..MaxLimit}

\* prev_arg is handed to the binder of a LEXICAL base that declares limit,
\* as a shorthand of a limit or as the name limit before a list of two
\* numerals
LimitGiven ==
  /\ frame.pc = "body" /\ command.base.has /\ command.mode = "lexical"
  /\ frame.prev_arg.k = "str" /\ "limit" \in DOMAIN command.args
  /\ IF frame.arg.k = "list"
     THEN frame.prev_arg.s = "limit" /\ \E f \in LimitLists : f.list = frame.arg.l
     ELSE \E f \in LimitForms : f.text = frame.prev_arg.s

\* the min and the max the form given in that step stands for
LimitWanted ==
  IF frame.arg.k = "list" THEN CHOOSE f \in LimitLists : f.list = frame.arg.l
  ELSE CHOOSE f \in LimitForms : f.text = frame.prev_arg.s

\* C24: a limit given as A->B, ->B, A-> or limit[A B], with A and B from 0
\* to MaxLimit, sets min and max of the limit parameter to the numbers the
\* form stands for (unset where the form has none), changes no other
\* parameter, and the parse goes on
C24_LimitBound ==
  [][LimitGiven =>
       /\ frame'.pc \in {"loop", "return"}
       /\ command'.args =
            [command.args EXCEPT !["limit"] =
               [@ EXCEPT !.min = LimitWanted.min, !.max = LimitWanted.max]]]_vars

\* rq 0->12 and rq limit[3 12]; rq ->7; rq 3->
C24_Witness ==
  /\ IsCommand /\ frame.bound = {"limit"}
  /\ LET limit == outcome.command.args["limit"]
     IN \/ frame.text = "rq 0->12 " /\ limit.min = Some(0) /\ limit.max = Some(12)
        \/ frame.text = "rq limit[3 12] " /\ limit.min = Some(3) /\ limit.max = Some(12)
        \/ frame.text = "rq ->7 " /\ limit.min = NoneInt /\ limit.max = Some(7)
        \/ frame.text = "rq 3-> " /\ limit.min = Some(3) /\ limit.max = NoneInt

\* prev_arg is handed to a quoted-string parameter: a bare token that is
\* its shorthand in a LEXICAL base, the next token of a POSITIONAL base
\* whose next parameter it is, or its name before a list that starts with a
\* string
QuotedGiven ==
  /\ frame.pc = "body" /\ command.base.has /\ frame.prev_arg.k = "str"
  /\ IF frame.arg.k = "list"
     THEN /\ command.mode = "lexical" /\ frame.arg.l # <<>>
          /\ First(frame.arg).k = "str"
          /\ LET name == get_param_name_by_name(BaseGrammar, frame.prev_arg)
             IN name.has /\ command.args[name.v].type = "QuotedStringParam"
     ELSE IF command.mode = "lexical"
     THEN /\ ~(~command.args_encountered
                 /\ frame.prev_arg.s \in BaseGrammar.subcommands)
          /\ LET name == get_param_name_by_arg(BaseGrammar, frame.prev_arg)
             IN name.has /\ command.args[name.v].type = "QuotedStringParam"
     ELSE /\ command.mode = "positional"
          /\ LET name == get_param_name_by_pos(BaseGrammar, command.current_pos)
             IN name.has /\ command.args[name.v].type = "QuotedStringParam"

\* the parameter that takes the token in that step, and the token
QuotedName ==
  IF frame.arg.k = "list" THEN get_param_name_by_name(BaseGrammar, frame.prev_arg).v
  ELSE IF command.mode = "lexical"
  THEN get_param_name_by_arg(BaseGrammar, frame.prev_arg).v
  ELSE get_param_name_by_pos(BaseGrammar, command.current_pos).v
QuotedToken ==
  IF frame.arg.k = "list" THEN First(frame.arg).s ELSE frame.prev_arg.s

\* token begins and ends with one and the same quote character
Delimited(token) ==
  /\ Len(token) >= 2 /\ SubSeq(token, 1, 1) \in quotes
  /\ SubSeq(token, Len(token), Len(token)) = SubSeq(token, 1, 1)

\* the text between the quotes, and whether a slash begins and ends it
Inner(token) == SubSeq(token, 2, Len(token) - 1)
Slashed(inner) ==
  /\ Len(inner) >= 2 /\ SubSeq(inner, 1, 1) = "/"
  /\ SubSeq(inner, Len(inner), Len(inner)) = "/"

\* C25: a token in matching quotes handed to a quoted-string parameter
\* stores the quote character, the text between the quotes (without the
\* slashes when a slash begins and ends it) and is_regex true exactly when
\* a slash begins and ends it; any other token ends the parse by raising
\* ValueError
C25_QuotedStored ==
  [][QuotedGiven =>
       IF Delimited(QuotedToken)
       THEN LET inner == Inner(QuotedToken)
            IN /\ frame'.pc \in {"loop", "return"}
               /\ command'.args[QuotedName] =
                    [command.args[QuotedName] EXCEPT
                       !.quote_type = Some(SubSeq(QuotedToken, 1, 1)),
                       !.value = Some(IF Slashed(inner) THEN Inner(inner) ELSE inner),
                       !.is_regex = Slashed(inner)]
       ELSE frame'.pc = "returned" /\ outcome' = Raised("ValueError")]_vars

\* the rows of the table of guild g that map the message original
Mapped(db, g, original) ==
  {i \in 1..Len(db[g].rows) : db[g].rows[i].original = original}

\* C26: unpin_message on a guild with its table returns the pin message id
\* recorded for the original message and removes every row of it; it
\* returns None only when the table held no row of the original message,
\* and then changes no table
C26_UnpinReturnsPin ==
  [][reply'.call = "unpin_message" /\ pins[reply'.args[1]].exists =>
       LET g == reply'.args[1]
           original == reply'.args[2]
           had == Mapped(pins, g, original)
       IN /\ reply'.exc = ""
          /\ Mapped(pins', g, original) = {}
          /\ IF had = {} THEN reply'.v = NoneInt /\ pins' = pins
             ELSE \E i \in had : reply'.v = Some(pins[g].rows[i].pin)]_vars

\* the parameter of the current base that the token s names, by its name or
\* by an alias of it; "" when it names none
NamedBy(s) ==
  LET params == BaseGrammar.parameters
      i == Lookup(params, s)
  IN IF i = 0 THEN ""
     ELSE IF params[i].is_alias THEN params[i].target ELSE params[i].key

\* the parameters that the step bound or changed
Touched ==
  {n \in DOMAIN command.args \cap DOMAIN command'.args :
     command'.args[n] # command.args[n]}
    \cup (frame'.bound \ frame.bound)

\* the step ended the parse with None and bound nothing
Unbound ==
  /\ frame'.pc = "returned" /\ outcome'.kind = "None"
  /\ command'.args = command.args /\ frame'.bound = frame.bound

\* C27: in the token loop, once the command is known, a token followed by a
\* list is used as the name of the list's parameter and binds that
\* parameter only (or, naming none, ends the parse with None); a list with
\* no token pending before it binds nothing and ends the parse with None; a
\* bare token is handed to the binder once (a subcommand, one parameter, or
\* None) and the token read after it is the next one handed over; with no
\* token pending the step binds nothing
C27_TokensBoundOnce ==
  [][frame.pc = "body" /\ command.base.has =>
       IF frame.arg.k = "list" THEN
         IF frame.prev_arg.k = "str" /\ NamedBy(frame.prev_arg.s) # ""
         THEN /\ command'.base = command.base
              /\ Touched \subseteq {NamedBy(frame.prev_arg.s)}
              /\ NamedBy(frame.prev_arg.s) \in frame'.bound
              /\ frame'.pc # "returned" =>
                   frame'.prev_arg = NoneTok /\ frame'.arg = frame.arg
         ELSE Unbound
       ELSE IF frame.prev_arg.k = "str" THEN
         \/ command'.base # command.base
         \/ Unbound
         \/ /\ command'.base = command.base
            /\ command'.args_encountered
            /\ Cardinality(Touched) <= 1
            /\ frame'.pc # "returned" => frame'.prev_arg = frame.arg
       ELSE /\ command' = command
            /\ frame'.prev_arg = frame.arg]_vars

\* the step binds a base of mode REST
RestBound == command.mode # "rest" /\ command'.mode = "rest"

\* C28: the step that binds a REST base also makes the one binding that
\* follows it, of the first positional parameter, and leaves the token loop
\* with nothing more read from the lexer; the next step returns the
\* command; and every parse begins with the lexer on the LEXICAL wordchars
C28_RestTerminal ==
  [][/\ RestBound =>
          /\ frame'.pc = "return"
          /\ frame'.bound = {grammar[command'.base.v].g.positional_order[1]}
          /\ command'.current_pos = 1
          /\ lexer'.pushback = lexer.pushback /\ lexer'.token = lexer.token
     /\ command.mode = "rest" /\ Parsing =>
          /\ frame.pc = "return"
          /\ frame'.pc = "returned" /\ outcome'.kind = "ParsedCommand"
          /\ outcome'.command = command /\ lexer' = lexer
     /\ frame'.pc = "first" => lexer'.wordchars = "lexical"]_vars

\* the parameter types that declare a shorthand pattern
ShorthandTypes == {"LimitParam", "CountParam", "QuotedStringParam", "FlagsParam"}

\* the i-th character of s, "" beyond its end
CharAt(s, i) == IF i \in 1..Len(s) THEN SubSeq(s, i, i) ELSE ""

\* the shorthand pattern of the type matches at the start of the token s:
\* digits and ->, x, - and a lower-case letter, a quote that is closed
Accepts(type, s) ==
  CASE type = "LimitParam" ->
         \E i \in 0..Len(s) :
           /\ \A j \in 1..i : CharAt(s, j) \in digits
           /\ CharAt(s, i + 1) = "-" /\ CharAt(s, i + 2) = ">"
    [] type = "CountParam" -> CharAt(s, 1) = "x"
    [] type = "FlagsParam" ->
         CharAt(s, 1) = "-" /\ CharAt(s, 2) \in ascii_lowercase
    [] type = "QuotedStringParam" ->
         /\ CharAt(s, 1) \in quotes
         /\ \E j \in 2..Len(s) : CharAt(s, j) = CharAt(s, 1)
    [] OTHER -> FALSE

\* the entries of params, in registration order, that declare a shorthand
\* accepting the token s
Accepting(params, s) ==
  {i \in 1..Len(params) :
     /\ ~params[i].is_alias /\ params[i].type \in ShorthandTypes
     /\ Accepts(params[i].type, s)}

\* prev_arg, a bare token, is handed to the binder of a LEXICAL base
ShorthandToken ==
  /\ frame.pc = "body" /\ command.base.has /\ command.mode = "lexical"
  /\ frame.arg.k # "list" /\ frame.prev_arg.k = "str"

\* C29: a bare token handed to the binder of a LEXICAL command that is not
\* taken as a subcommand is bound to the first parameter in registration
\* order that declares a shorthand accepting it and to no other, and ends
\* the parse with None when there is none; and in no command of the
\* registry do two parameters declare shorthands that accept the token
C29_ShorthandUnique ==
  [][ShorthandToken =>
       LET params == BaseGrammar.parameters
           acc == Accepting(params, frame.prev_arg.s)
       IN /\ \A c \in DOMAIN grammar :
               Cardinality(Accepting(grammar[c].g.parameters, frame.prev_arg.s)) <= 1
          /\ \/ command'.base # command.base
             \/ /\ acc = {}
                /\ Unbound
             \/ /\ acc # {}
                /\ command'.base = command.base
                /\ LET first == params[CHOOSE i \in acc : \A j \in acc : i <= j].key
                   IN /\ Touched \subseteq {first}
                      /\ first \in frame'.bound]_vars

\* gen took the token ->x1 as its limit and not as its count; ms took -x1
\* as its flags
C29_Witness ==
  /\ Ended
  /\ \/ frame.text = "gen ->x1" /\ frame.bound = {"limit"}
     \/ frame.text = "ms -x1 " /\ frame.bound = {"flags"}

\* the coroutines that are between two of their suspension points
Running == {m \in DOMAIN tasks : tasks[m] = "running"}

\* C30: a parse_command begins only when no parse_command is under way on
\* the parser (the one before it has returned or raised and its caller has
\* gone on), it begins on the lexer as the parse before it left it, and
\* while a parse is under way exactly one coroutine holds the thread and no
\* coroutine is scheduled, started or resumed
C30_ParsesNeverInterleave ==
  [][/\ frame'.pc = "first" /\ frame.pc # "first" =>
          /\ frame.pc = "idle"
          /\ lexer'.pushback = lexer.pushback /\ lexer'.token = lexer.token
     /\ Parsing => Cardinality(Running) = 1 /\ tasks' = tasks]_vars

\* the parse of one message is under way while the coroutine of another
\* message waits in its handler, and the lexer still holds what that
\* earlier parse left in it
C30_Witness ==
  /\ Parsing /\ ~frame.clean
  /\ \E m \in DOMAIN tasks : tasks[m] = "awaiting"

\* the text parsed, its words joined by one blank each
TypedPath ==
  LET u == Unsplit(WordsOf(frame.text)) IN SubSeq(u, 1, Len(u) - 1)

\* the keys of the registry under which a command, not an alias, stands
CommandKeys == {k \in DOMAIN grammar : grammar[k].alias_of = ""}

\* C31: a text that is a registered command path, parsed by a Parser that
\* holds no residue, gives a command whose base has that path as name; and
\* every subcommand name of the base of a returned command, joined to the
\* path of the base, is a registered command path
C31_PathsReachable ==
  /\ Ended /\ frame.clean /\ WordsOf(frame.text) # <<>>
       /\ TypedPath \in CommandKeys =>
       /\ IsCommand
       /\ grammar[outcome.command.base.v].g.name = TypedPath
  /\ IsCommand =>
       \A n \in grammar[outcome.command.base.v].g.subcommands :
         (outcome.command.base.v \o " " \o n) \in CommandKeys

\* the ids, the names of the entities param holds as resolved
ResolvedIds == [i \in 1..Len(param.resolved) |-> param.resolved[i].id]
ResolvedNames == [i \in 1..Len(param.resolved) |-> param.resolved[i].name]

\* C32: a resolve that returns leaves entities of the directory it was
\* given, a resolve that raises leaves the resolved entities as they were,
\* and ids and names read after a resolve that found entities are the ids
\* and the names of the entities the last such resolve found, also when
\* the same instance is resolved again in a directory that has changed
C32_ExposesLastResolve ==
  [][/\ reply'.call = "resolve" /\ reply'.exc = "" =>
          \A i \in 1..Len(param'.resolved) :
            \E k \in 1..Len(Directory) : param'.resolved[i] = Directory[k]
     /\ reply'.call = "resolve" /\ reply'.exc # "" =>
          param'.resolved = param.resolved
     /\ reply'.call = "ids" => reply'.v = ResolvedIds
     /\ reply'.call = "names" /\ param.resolved # <<>> =>
          reply'.v = ResolvedNames]_vars

\* C33: a pin_message call that raises nothing adds one row to the table
\* of its guild, the mapping it was given, and no other
C33_WrappedRunsOnce ==
  [][reply'.call = "pin_message" /\ reply'.exc = "" =>
       pins' = [pins EXCEPT ![reply'.args[1]].rows =
                  Append(@, [original |-> reply'.args[2],
                             pin |-> reply'.args[3]])]]_vars

\* the prefix the database holds for guild g, the default when it holds none
Persisted(db, g) ==
  IF db.exists /\ db.rows[g].row /\ db.rows[g].prefix.has
  THEN db.rows[g].prefix.v
  ELSE default_prefix

\* C34: after every read and write the prefix cached for a guild is the
\* one the database holds for it, or the default when it holds none; a
\* write that returns leaves the prefix written (the default for None) in
\* the cache, a read that returns gives the cached prefix, and a write
\* that raises leaves the cache as it was
C34_CacheIsPersisted ==
  [][/\ \A g \in GuildIds :
          prefixes'.prefixes[g].has =>
            prefixes'.prefixes[g].v = Persisted(config', g)
     /\ reply'.call = "setitem" /\ reply'.exc = "" =>
          prefixes'.prefixes[reply'.args[1]] =
            IF reply'.args[2].has THEN reply'.args[2] ELSE Some(default_prefix)
     /\ reply'.call = "setitem" /\ reply'.exc # "" => prefixes' = prefixes
     /\ reply'.call = "getitem" /\ reply'.exc = "" =>
          reply'.v = prefixes'.prefixes[reply'.args[1]]]_vars

\* C35: again in a channel without recorded command returns False, raises
\* nothing, calls nothing and leaves the memory as it is, and so does a
\* repeat reaction there; again in a channel with a recorded command
\* calls the recorded function with the recorded message and command
C35_AgainRepeatsLast ==
  [][/\ reply'.call \in {"again", "repeat_command_reaction"}
          /\ channel_memory[reply'.args[1].channel] = <<>> =>
          /\ reply'.exc = ""
          /\ reply'.v = Result(FALSE, 0)
          /\ reply'.invoked = <<>>
          /\ channel_memory' = channel_memory
     /\ reply'.call = "again"
          /\ channel_memory[reply'.args[1].channel] # <<>> =>
          LET last_cmd == channel_memory[reply'.args[1].channel][1]
          IN /\ reply'.exc = ""
             /\ reply'.invoked =
                  <<last_cmd.function, last_cmd.msg, last_cmd.cmd>>]_vars

\* the keys of the SizedDict d in the order in which they were first put
\* into the queue
RECURSIVE FirstInserted(_, _)
FirstInserted(queue, keys) ==
  IF queue = <<>> \/ keys = {} THEN <<>>
  ELSE IF Head(queue) \in keys
  THEN <<Head(queue)>> \o FirstInserted(Tail(queue), keys \ {Head(queue)})
  ELSE FirstInserted(Tail(queue), keys)

\* C36: every assignment to a SizedDict raises nothing and leaves the key
\* with its value, the dict never holds more keys than its size, and the
\* keys an assignment removes are the ones that were first inserted
\* earliest among those held
C36_SizedDictBounded ==
  [][reply'.call = "SizedDict_setitem" =>
       LET held == DOMAIN rquote_memory.dict
           evicted == held \ DOMAIN rquote_memory'.dict
           order == FirstInserted(rquote_memory.key_queue, held)
       IN /\ reply'.exc = ""
          /\ reply'.args[1] \in DOMAIN rquote_memory'.dict
          /\ rquote_memory'.dict[reply'.args[1]] = reply'.args[2]
          /\ Cardinality(DOMAIN rquote_memory'.dict) <= rquote_memory.size
          /\ Cardinality(evicted) <= 1
          /\ evicted # {} => order # <<>> /\ evicted = {Head(order)}]_vars

====
